---- MODULE Spec2Model ----
(***************************************************************************)
(* Model of the documentation-module extractor (package pulse).            *)
(*                                                                         *)
(* Part 1: URLCrawler (src/pulse/crawler.py).  A URL is a sequence of      *)
(* tokens: the delimiters ":" "/" ";" "?" "#" and words (non-empty runs of *)
(* characters that hold no delimiter).  urlparse / urlunparse / urljoin    *)
(* are the functions of urllib.parse that crawler.py imports, written out  *)
(* on that representation.                                                 *)
(*                                                                         *)
(* Part 2: ContentParser, ModuleInference, DescriptionSummarizer and       *)
(* ExtractionPipeline (src/pulse/parser.py, inference.py, summarizer.py,   *)
(* pipeline.py).  A text is a sequence of one-character strings; an HTML   *)
(* document is the sequence of its elements in document order.             *)
(***************************************************************************)
EXTENDS Integers, Sequences, FiniteSets, TLC

VARIABLES
    max_depth,          \* URLCrawler.max_depth
    max_pages,          \* URLCrawler.max_pages
    delay,              \* URLCrawler.delay
    respect_robots_txt, \* URLCrawler.respect_robots_txt
    visited,            \* URLCrawler.visited
    robots_cache,       \* URLCrawler.robots_cache
    seed_urls,          \* crawl: the normalized seed list
    base_domain,        \* crawl: netloc of the first seed
    queue,              \* crawl: deque of <<url, depth>>
    pages,              \* crawl: list of page_data
    pc,                 \* position of crawl: "idle", "loop", "done"
    attempts,           \* history: one record per call of _fetch_page by this crawl
    enqueued,           \* history: every <<url, depth>> this crawl put on the queue
    robots_reads,       \* history: the domains whose robots.txt was requested
    calls_left,         \* the calls of crawl still to be made after this one
    nu,                 \* input of the normalization check
    nout,               \* its results: <<normalize(nu), normalize(normalize(nu))>>
    npc,                \* position of the normalization check
    fetched_pages,      \* extract: the pages the crawl returned
    parsed_pages,       \* extract: the pages parsed so far
    modules_dict,       \* extract: the modules inferred, in insertion order
    output_modules,     \* extract: the records _format_output built
    logs,               \* ExtractionPipeline.logs: <<level, message>>
    xpc,                \* position of extract
    xi,                 \* extract: index of the running loop
    text_in,            \* input of a text function under check
    text_out,           \* its result
    tpc                 \* which text function is under check, "done" after it

vars == <<max_depth, max_pages, delay, respect_robots_txt, visited,
          robots_cache, seed_urls, base_domain, queue, pages, pc,
          attempts, enqueued, robots_reads, calls_left, nu, nout, npc,
          fetched_pages, parsed_pages, modules_dict, output_modules, logs,
          xpc, xi, text_in, text_out, tpc>>

crawlVars == <<max_depth, max_pages, delay, respect_robots_txt, visited,
               robots_cache, seed_urls, base_domain, queue, pages, pc,
               attempts, enqueued, robots_reads, calls_left>>

normVars == <<nu, nout, npc>>

extractVars == <<fetched_pages, parsed_pages, modules_dict, output_modules,
                 logs, xpc, xi>>

textVars == <<text_in, text_out, tpc>>

(***************************************************************************)
(* Bounds of the model.                                                    *)
(***************************************************************************)
MaxDepthBound == 1
MaxPagesBound == 2
MaxTail == 3

(***************************************************************************)
(* Strings as token sequences.                                             *)
(***************************************************************************)
Delims == {":", "/", ";", "?", "#"}

\* first index >= start at which s holds c, 0 when there is none (str.find)
Find(s, c, start) ==
    LET hits == {i \in start..Len(s) : s[i] = c}
    IN IF hits = {} THEN 0 ELSE CHOOSE i \in hits : \A j \in hits : i <= j

\* last index at which s holds c, 0 when there is none (str.rfind)
RFind(s, c) ==
    LET hits == {i \in 1..Len(s) : s[i] = c}
    IN IF hits = {} THEN 0 ELSE CHOOSE i \in hits : \A j \in hits : i >= j

\* s[i:] of Python, i a 1-based index
From(s, i) == SubSeq(s, i, Len(s))

\* s[:n] of Python
Prefix(s, n) == SubSeq(s, 1, IF n > Len(s) THEN Len(s) ELSE n)

\* str.lower on one word of the vocabulary
LowerWord(w) ==
    CASE w = "LOGIN" -> "login"
      [] w = "HTTP" -> "http"
      [] w = "X.PDF" -> "x.pdf"
      [] OTHER -> w

\* str.lower
Lower(s) == [i \in 1..Len(s) |-> LowerWord(s[i])]

\* str.rstrip('/')
RECURSIVE RStripSlash(_)
RStripSlash(s) ==
    IF Len(s) > 0 /\ s[Len(s)] = "/" THEN RStripSlash(SubSeq(s, 1, Len(s) - 1))
    ELSE s

\* str.split('/')
RECURSIVE SplitSlash(_)
SplitSlash(s) ==
    LET i == Find(s, "/", 1)
    IN IF i = 0 THEN <<s>>
       ELSE <<SubSeq(s, 1, i - 1)>> \o SplitSlash(From(s, i + 1))

(***************************************************************************)
(* urllib.parse                                                            *)
(***************************************************************************)
uses_netloc == {<<>>, <<"ftp">>, <<"http">>, <<"https">>}
uses_params == {<<>>, <<"ftp">>, <<"http">>, <<"https">>}
uses_relative == {<<>>, <<"ftp">>, <<"http">>, <<"https">>}

\* urlsplit, the scheme: <<scheme, rest>>
SplitScheme(url, default_scheme) ==
    LET i == Find(url, ":", 1)
    IN IF i > 1 /\ \A k \in 1..(i - 1) : url[k] \notin Delims
       THEN <<Lower(SubSeq(url, 1, i - 1)), From(url, i + 1)>>
       ELSE <<default_scheme, url>>

\* urlsplit and _splitnetloc, the authority: <<netloc, rest>>
SplitNetloc(url) ==
    LET ends == {j \in 3..Len(url) : url[j] \in {"/", "?", "#"}}
        delim == IF ends = {} THEN Len(url) + 1
                 ELSE CHOOSE j \in ends : \A k \in ends : j <= k
    IN IF Prefix(url, 2) = <<"/", "/">>
       THEN <<SubSeq(url, 3, delim - 1), From(url, delim)>>
       ELSE <<<<>>, url>>

\* url.split(c, 1) when c is in url: <<before, after>>, else <<url, "">>
SplitAt(url, c) ==
    LET i == Find(url, c, 1)
    IN IF i > 0 THEN <<SubSeq(url, 1, i - 1), From(url, i + 1)>>
       ELSE <<url, <<>>>>

\* urlsplit: [scheme, netloc, path, query, fragment]
urlsplit(url, default_scheme) ==
    LET s == SplitScheme(url, default_scheme)
        n == SplitNetloc(s[2])
        f == SplitAt(n[2], "#")
        q == SplitAt(f[1], "?")
    IN [scheme |-> s[1], netloc |-> n[1], path |-> q[1],
        query |-> q[2], fragment |-> f[2]]

\* _splitparams: <<path, params>>
splitparams(url) ==
    LET r == RFind(url, "/")
        i == IF r > 0 THEN Find(url, ";", r) ELSE Find(url, ";", 1)
    IN IF i = 0 THEN <<url, <<>>>>
       ELSE <<SubSeq(url, 1, i - 1), From(url, i + 1)>>

\* urlparse after urlsplit: [scheme, netloc, path, params, query, fragment]
WithParams(s, sp) ==
    [scheme |-> s.scheme, netloc |-> s.netloc, path |-> sp[1],
     params |-> sp[2], query |-> s.query, fragment |-> s.fragment]

ParseSplit(s) ==
    WithParams(s, IF s.scheme \in uses_params /\ Find(s.path, ";", 1) > 0
                  THEN splitparams(s.path) ELSE <<s.path, <<>>>>)

\* urlparse(url, scheme)
urlparse2(url, default_scheme) == ParseSplit(urlsplit(url, default_scheme))

urlparse(url) == urlparse2(url, <<>>)

urlunsplit(scheme, netloc, path, query, fragment) ==
    (IF scheme # <<>> THEN scheme \o <<":">> ELSE <<>>)
    \o (IF netloc # <<>> \/ (scheme # <<>> /\ scheme \in uses_netloc
                             /\ Prefix(path, 2) # <<"/", "/">>)
        THEN <<"/", "/">> \o netloc
             \o (IF path # <<>> /\ path[1] # "/" THEN <<"/">> ELSE <<>>)
        ELSE <<>>)
    \o path
    \o (IF query # <<>> THEN <<"?">> \o query ELSE <<>>)
    \o (IF fragment # <<>> THEN <<"#">> \o fragment ELSE <<>>)

urlunparse(scheme, netloc, path, params, query, fragment) ==
    urlunsplit(scheme, netloc,
               IF params # <<>> THEN path \o <<";">> \o params ELSE path,
               query, fragment)

\* '/'.join(segments)
RECURSIVE JoinSlash(_)
JoinSlash(segs) ==
    IF Len(segs) = 0 THEN <<>>
    ELSE IF Len(segs) = 1 THEN segs[1]
    ELSE segs[1] \o <<"/">> \o JoinSlash(Tail(segs))

\* segments[1:-1] = filter(None, segments[1:-1])
DropEmptyInner(segs) ==
    IF Len(segs) <= 2 THEN segs
    ELSE <<segs[1]>>
         \o SelectSeq(SubSeq(segs, 2, Len(segs) - 1), LAMBDA x : x # <<>>)
         \o <<segs[Len(segs)]>>

\* base_parts of urljoin
BaseParts(bp) ==
    IF bp[Len(bp)] # <<>> THEN SubSeq(bp, 1, Len(bp) - 1) ELSE bp

\* '/'.join(resolved_path) or '/'
JoinOrRoot(segments) ==
    IF JoinSlash(segments) = <<>> THEN <<"/">> ELSE JoinSlash(segments)

\* urljoin once base and url are parsed
JoinParsed(url, b, u) ==
    IF u.scheme # b.scheme \/ u.scheme \notin uses_relative THEN url
    ELSE IF u.netloc # <<>>
    THEN urlunparse(u.scheme, u.netloc, u.path, u.params, u.query, u.fragment)
    ELSE IF u.path = <<>> /\ u.params = <<>>
    THEN urlunparse(u.scheme, b.netloc, b.path, b.params,
                    IF u.query = <<>> THEN b.query ELSE u.query, u.fragment)
    ELSE urlunparse(u.scheme, b.netloc,
                    JoinOrRoot(IF Prefix(u.path, 1) = <<"/">> THEN SplitSlash(u.path)
                               ELSE DropEmptyInner(BaseParts(SplitSlash(b.path))
                                                   \o SplitSlash(u.path))),
                    u.params, u.query, u.fragment)

\* urljoin, base parsed
JoinOnBase(url, b) == JoinParsed(url, b, urlparse2(url, b.scheme))

\* urljoin (the vocabulary holds no '.' or '..' segment)
urljoin(base, url) ==
    IF base = <<>> THEN url
    ELSE IF url = <<>> THEN base
    ELSE JoinOnBase(url, urlparse(base))

(***************************************************************************)
(* URLCrawler: the pure helpers                                            *)
(***************************************************************************)
\* parsed.path.rstrip('/') or '/'
StripPath(path) ==
    IF RStripSlash(path) = <<>> THEN <<"/">> ELSE RStripSlash(path)

\* urlunparse of _normalize_url, lines 77-84
NormalizeParsed(parsed) ==
    urlunparse(parsed.scheme, parsed.netloc, StripPath(parsed.path),
               parsed.params, parsed.query, <<>>)

\* URLCrawler._normalize_url
normalize_url(url) == NormalizeParsed(urlparse(url))

\* URLCrawler._get_domain
get_domain(url) == urlparse(url).netloc

\* URLCrawler._is_same_domain
is_same_domain(url1, url2) == get_domain(url1) = get_domain(url2)

\* the words of the vocabulary that end in a denylisted extension
ExtWords == {"x.pdf"}

\* the denylisted path components
DenyParts == {"login", "signin", "signup", "register", "logout",
              "privacy", "terms", "legal", "cookie", "contact"}

\* path_lower.endswith(ext) for some ext of the list
HasDeniedExt(path) ==
    Len(path) > 0 /\ LowerWord(path[Len(path)]) \in ExtWords

\* the same without p.lower()
HasDeniedPart_CaseSensitive(path) ==
    LET parts == SplitSlash(path)
    IN \E i \in 1..Len(parts) :
          /\ Len(parts[i]) = 1
          /\ parts[i][1] \in DenyParts

\* any(part in path_parts ...), path_parts the lowered non-empty components
HasDeniedPart(path) ==
    LET parts == SplitSlash(path)
    IN \E i \in 1..Len(parts) :
          /\ Len(parts[i]) = 1
          /\ LowerWord(parts[i][1]) \in DenyParts

\* the same without the domain check
StaticRulesOn_AnyDomain(parsed, domain) ==
    /\ parsed.scheme \in {<<"http">>, <<"https">>}
    /\ ~HasDeniedExt(parsed.path)
    /\ ~HasDeniedPart(parsed.path)

\* the checks of _should_crawl_url on the parsed URL, lines 122-144
StaticRulesOn(parsed, domain) ==
    /\ parsed.scheme \in {<<"http">>, <<"https">>}
    /\ parsed.netloc = domain
    /\ ~HasDeniedExt(parsed.path)
    /\ ~HasDeniedPart(parsed.path)

\* URLCrawler._should_crawl_url up to the robots check
PassesStaticRules(url, domain) == StaticRulesOn(urlparse(url), domain)

\* what rp.read() can do: raise, or leave a parser holding a policy
RobotsOutcomes == {"error", "allow_all", "disallow_c"}

\* RobotFileParser.can_fetch of a parser that was read
ParserCanFetch(policy, url) ==
    CASE policy = "allow_all" -> TRUE
      [] OTHER -> Prefix(urlparse(url).path, 2) # <<"/", "c">>

\* the same, but a failed read is not cached
can_fetch_FailureNotCached(url, domain, cache, reads, rr) ==
    LET miss == domain \notin DOMAIN cache
        cache2 == IF miss /\ rr # "error" THEN (domain :> rr) @@ cache ELSE cache
        reads2 == IF miss THEN Append(reads, domain) ELSE reads
    IN [ok |-> IF domain \notin DOMAIN cache2 \/ cache2[domain] = "None" THEN TRUE
               ELSE ParserCanFetch(cache2[domain], url),
        cache |-> cache2, reads |-> reads2]

\* URLCrawler._can_fetch: [ok, cache, reads]; rr is the outcome of rp.read()
can_fetch(url, domain, cache, reads, rr) ==
    LET miss == domain \notin DOMAIN cache
        cache2 == IF miss
                  THEN (domain :> (IF rr = "error" THEN "None" ELSE rr)) @@ cache
                  ELSE cache
        reads2 == IF miss THEN Append(reads, domain) ELSE reads
    IN [ok |-> IF cache2[domain] = "None" THEN TRUE
               ELSE ParserCanFetch(cache2[domain], url),
        cache |-> cache2, reads |-> reads2]

\* URLCrawler._should_crawl_url: [ok, cache, reads]
should_crawl_url(url, domain, respect, cache, reads, rr) ==
    IF ~PassesStaticRules(url, domain)
    THEN [ok |-> FALSE, cache |-> cache, reads |-> reads]
    ELSE IF respect THEN can_fetch(url, domain, cache, reads, rr)
    ELSE [ok |-> TRUE, cache |-> cache, reads |-> reads]

\* URLCrawler._extract_links; html is the list of href values of the page
extract_links(html, base_url) ==
    [i \in 1..Len(html) |-> normalize_url(urljoin(base_url, html[i]))]

(***************************************************************************)
(* Inputs of the model: raw seed URLs, and the href lists of pages.        *)
(***************************************************************************)
Http(rest) == <<"http", ":", "/", "/">> \o rest

SeedLists ==
    { <<>>,
      << Http(<<"a", "/">>) >>,
      \* http://a/, http://a/b/#c
      << Http(<<"a", "/">>), Http(<<"a", "/", "b", "/", "#", "c">>) >>,
      \* http://a/b;/, http://a/b
      << Http(<<"a", "/", "b", ";", "/">>), Http(<<"a", "/", "b">>) >>,
      \* http://a, http://a/ (the same page twice)
      << Http(<<"a">>), Http(<<"a", "/">>) >>,
      \* http://a/LOGIN, http://a/c
      << Http(<<"a", "/", "LOGIN">>), Http(<<"a", "/", "c">>) >>,
      \* http://a/, http://b/, http://a/c (second seed on another domain)
      << Http(<<"a", "/">>), Http(<<"b", "/">>), Http(<<"a", "/", "c">>) >>,
      \* ftp://a/b, http://a/x.pdf, HTTP://a/
      << <<"ftp", ":", "/", "/", "a", "/", "b">>, Http(<<"a", "/", "x.pdf">>),
         <<"HTTP", ":", "/", "/", "a", "/">> >> }

LinkLists ==
    { <<>>,
      \* b, b/#c (the same page), c
      << Http(<<"a", "/", "b">>), <<"b", "/", "#", "c">>, <<"/", "c">> >>,
      \* b;/ and b
      << Http(<<"a", "/", "b", ";", "/">>), Http(<<"a", "/", "b">>) >>,
      \* links the admission filter rejects, then c
      << <<"/", "login">>, <<"/", "c", "/", "x.pdf">>, Http(<<"b", "/", "c">>),
         <<"ftp", ":", "/", "/", "a", "/", "b">>, <<"c">> >>,
      \* back to the root, a self link, c twice
      << <<"/">>, <<"#", "c">>, <<"c">>, <<"/", "c", "/">> >> }

FetchOutcomes == {"ok", "request_exception", "not_html"}

(***************************************************************************)
(* URLCrawler.crawl                                                        *)
(***************************************************************************)
\* URLCrawler._fetch_page: <<>> for None, else <<page_data>>
fetch_page_AnyContentType(url, outcome, html) ==
    IF outcome = "request_exception" THEN <<>>
    ELSE <<[url |-> url, html |-> html]>>

fetch_page(url, outcome, html) ==
    IF outcome = "ok" THEN <<[url |-> url, html |-> html]>> ELSE <<>>

\* the same with queue.appendleft
AppendLink_Front(q, link, depth) == <<<<link, depth + 1>>>> \o q

\* queue.append((link, depth + 1)), line 293
AppendLink(q, link, depth) == Append(q, <<link, depth + 1>>)

\* the condition of line 292: [ok, cache, reads]
LinkCheck(link, vis, domain, respect, cache, reads, rr) ==
    IF link \notin vis
    THEN should_crawl_url(link, domain, respect, cache, reads, rr)
    ELSE [ok |-> FALSE, cache |-> cache, reads |-> reads]

\* the loop over links of crawl, lines 290-293: [queue, cache, reads]
RECURSIVE EnqueueLinks(_, _, _, _, _, _, _, _, _)
EnqueueRest(links, q, depth, vis, domain, respect, rr, sc) ==
    EnqueueLinks(Tail(links),
                 IF sc.ok THEN AppendLink(q, Head(links), depth) ELSE q,
                 depth, vis, domain, respect, sc.cache, sc.reads, rr)

EnqueueLinks(links, q, depth, vis, domain, respect, cache, reads, rr) ==
    IF links = <<>> THEN [queue |-> q, cache |-> cache, reads |-> reads]
    ELSE EnqueueRest(links, q, depth, vis, domain, respect, rr,
                     LinkCheck(Head(links), vis, domain, respect, cache, reads, rr))

\* the condition of the while loop, line 262
MorePagesWanted_AtMost(n, limit) == n <= limit
MorePagesWanted(n, limit) == n < limit

LoopRuns == pc = "loop" /\ queue # <<>> /\ MorePagesWanted(Len(pages), max_pages)

\* "if depth > self.max_depth: continue", line 270
TooDeep_OffByOne(depth, limit) == depth > limit + 1
TooDeep(depth, limit) == depth > limit

\* "if depth < self.max_depth", line 289
ExpandsAt_Inclusive(depth, limit) == depth <= limit
ExpandsAt(depth, limit) == depth < limit

Urls(q) == {q[i][1] : i \in 1..Len(q)}
Entries(q) == {q[i] : i \in 1..Len(q)}

\* URLCrawler.__init__: the configuration of one crawler
CrawlInit ==
    /\ max_depth \in (-1)..MaxDepthBound
    /\ max_pages \in 1..MaxPagesBound
    /\ delay \in {0, 1}
    /\ respect_robots_txt \in BOOLEAN
    /\ visited = {}
    /\ robots_cache = <<>>
    /\ seed_urls = <<>>
    /\ base_domain = <<>>
    /\ queue = <<>>
    /\ pages = <<>>
    /\ pc = "idle"
    /\ attempts = <<>>
    /\ enqueued = {}
    /\ robots_reads = <<>>
    /\ calls_left = 0

\* crawl, lines 241-260: normalize the seeds, fill the queue; the call is
\* the first on the crawler, or follows one that has returned
CrawlStart ==
    /\ pc = "idle" \/ (pc = "done" /\ calls_left > 0)
    /\ calls_left' = IF pc = "done" THEN calls_left - 1 ELSE calls_left
    /\ \E raw \in SeedLists :
         LET seeds == [i \in 1..Len(raw) |-> normalize_url(raw[i])]
             q == [i \in 1..Len(seeds) |-> <<seeds[i], 0>>]
         IN /\ seed_urls' = seeds
            /\ IF seeds = <<>>
               THEN /\ pc' = "done"
                    /\ enqueued' = {}
                    /\ UNCHANGED <<base_domain, queue, visited>>
               ELSE /\ pc' = "loop"
                    /\ base_domain' = get_domain(seeds[1])
                    /\ queue' = q
                    /\ visited' = {}
                    /\ enqueued' = Entries(q)
    /\ pages' = <<>>
    /\ attempts' = <<>>
    /\ UNCHANGED <<max_depth, max_pages, delay, respect_robots_txt,
                   robots_cache, robots_reads>>

\* the same, but the entry goes back to the end of the queue
IterSkipVisited_Requeue ==
    /\ LoopRuns
    /\ queue[1][1] \in visited
    /\ queue' = Append(Tail(queue), queue[1])
    /\ UNCHANGED <<calls_left, max_depth, max_pages, delay, respect_robots_txt, visited,
                   robots_cache, seed_urls, base_domain, pages, pc,
                   attempts, enqueued, robots_reads>>

\* one iteration that ends at "continue" of line 267
IterSkipVisited ==
    /\ LoopRuns
    /\ queue[1][1] \in visited
    /\ queue' = Tail(queue)
    /\ UNCHANGED <<calls_left, max_depth, max_pages, delay, respect_robots_txt, visited,
                   robots_cache, seed_urls, base_domain, pages, pc,
                   attempts, enqueued, robots_reads>>

\* one iteration that ends at "continue" of line 271
IterSkipDepth ==
    /\ LoopRuns
    /\ queue[1][1] \notin visited
    /\ TooDeep(queue[1][2], max_depth)
    /\ queue' = Tail(queue)
    /\ UNCHANGED <<calls_left, max_depth, max_pages, delay, respect_robots_txt, visited,
                   robots_cache, seed_urls, base_domain, pages, pc,
                   attempts, enqueued, robots_reads>>

\* the head entry passed the checks of lines 266 and 270
Fetchable ==
    /\ LoopRuns
    /\ queue[1][1] \notin visited
    /\ ~TooDeep(queue[1][2], max_depth)

\* _should_crawl_url on the head entry, line 274
HeadCheck(rr) ==
    should_crawl_url(queue[1][1], base_domain, respect_robots_txt,
                     robots_cache, robots_reads, rr)

\* the head entry is rejected by _should_crawl_url
Filtered(sc) ==
    /\ ~sc.ok
    /\ robots_cache' = sc.cache
    /\ robots_reads' = sc.reads

\* one iteration that ends at "continue" of line 276
IterSkipFiltered ==
    /\ Fetchable
    /\ \E rr \in RobotsOutcomes : Filtered(HeadCheck(rr))
    /\ queue' = Tail(queue)
    /\ UNCHANGED <<calls_left, max_depth, max_pages, delay, respect_robots_txt, visited,
                   seed_urls, base_domain, pages, pc, attempts, enqueued>>

\* lines 278-284: the URL is marked visited, the fetch yields no page
FetchFailed(url, depth, fr, sc, page_data) ==
    /\ sc.ok
    /\ page_data = <<>>
    /\ robots_cache' = sc.cache
    /\ robots_reads' = sc.reads
    /\ visited' = visited \cup {url}
    /\ attempts' = Append(attempts, [url |-> url, depth |-> depth,
                                     result |-> fr, slept |-> FALSE])

\* one iteration in which _fetch_page returns None: "continue" of line 284
IterFetchFail ==
    /\ Fetchable
    /\ \E rr \in RobotsOutcomes, fr \in FetchOutcomes :
         FetchFailed(queue[1][1], queue[1][2], fr, HeadCheck(rr),
                     fetch_page(queue[1][1], fr, <<>>))
    /\ queue' = Tail(queue)
    /\ UNCHANGED <<calls_left, max_depth, max_pages, delay, respect_robots_txt,
                   seed_urls, base_domain, pages, pc, enqueued>>

\* lines 289-293: the queue after the links of the page: [queue, cache, reads]
Expand(url, depth, page, sc, rr) ==
    IF ExpandsAt(depth, max_depth)
    THEN EnqueueLinks(extract_links(page.html, url), Tail(queue), depth,
                      visited \cup {url}, base_domain, respect_robots_txt,
                      sc.cache, sc.reads, rr)
    ELSE [queue |-> Tail(queue), cache |-> sc.cache, reads |-> sc.reads]

\* lines 278-297 for a fetched page
Fetched(url, depth, fr, page, en) ==
    /\ visited' = visited \cup {url}
    /\ pages' = Append(pages, page)
    /\ queue' = en.queue
    /\ robots_cache' = en.cache
    /\ robots_reads' = en.reads
    /\ enqueued' = enqueued \cup Entries(en.queue)
    /\ attempts' = Append(attempts, [url |-> url, depth |-> depth,
                                     result |-> fr, slept |-> delay > 0])

FetchSucceeded(url, depth, fr, sc, page_data, rr) ==
    /\ sc.ok
    /\ page_data # <<>>
    /\ Fetched(url, depth, fr, page_data[1],
               Expand(url, depth, page_data[1], sc, rr))

\* one iteration in which _fetch_page returns a page: lines 263-297
IterFetchOk ==
    /\ Fetchable
    /\ \E rr \in RobotsOutcomes, fr \in FetchOutcomes, html \in LinkLists :
         FetchSucceeded(queue[1][1], queue[1][2], fr, HeadCheck(rr),
                        fetch_page(queue[1][1], fr, html), rr)
    /\ UNCHANGED <<calls_left, max_depth, max_pages, delay, respect_robots_txt,
                   seed_urls, base_domain, pc>>

\* the loop condition of line 262 fails: lines 299-300
CrawlReturn ==
    /\ pc = "loop"
    /\ ~(queue # <<>> /\ MorePagesWanted(Len(pages), max_pages))
    /\ pc' = "done"
    /\ UNCHANGED <<calls_left, max_depth, max_pages, delay, respect_robots_txt, visited,
                   robots_cache, seed_urls, base_domain, queue, pages,
                   attempts, enqueued, robots_reads>>

(***************************************************************************)
(* The parts of the state a specification does not use stay at rest.       *)
(***************************************************************************)
CrawlOff ==
    /\ max_depth = 0 /\ max_pages = 1 /\ delay = 0 /\ respect_robots_txt = FALSE
    /\ visited = {} /\ robots_cache = <<>> /\ seed_urls = <<>>
    /\ base_domain = <<>> /\ queue = <<>> /\ pages = <<>> /\ pc = "off"
    /\ attempts = <<>> /\ enqueued = {} /\ robots_reads = <<>>
    /\ calls_left = 0

NormOff == nu = <<>> /\ nout = <<>> /\ npc = "off"

ExtractOff ==
    /\ fetched_pages = <<>> /\ parsed_pages = <<>> /\ modules_dict = <<>>
    /\ output_modules = <<>> /\ logs = <<>> /\ xpc = "off" /\ xi = 0

TextOff == text_in = <<>> /\ text_out = <<>> /\ tpc = "off"

(***************************************************************************)
(* Normalization applied once and twice to one URL.                        *)
(***************************************************************************)
RECURSIVE SeqsUpTo(_, _)
SeqsUpTo(S, n) ==
    IF n = 0 THEN {<<>>}
    ELSE LET shorter == SeqsUpTo(S, n - 1)
         IN shorter \cup {Append(q, x) : q \in {r \in shorter : Len(r) = n - 1}, x \in S}

NormPrefixes == { Http(<<"a">>), Http(<<"a", "/", "b">>),
                  <<"HTTP", ":", "/", "/", "a", "/">>,
                  <<"https", ":", "/", "/", "a", "/", "b", "/", "c">> }

TailTokens == {"/", ";", "?", "#", "b"}

NormInputs == {p \o t : p \in NormPrefixes, t \in SeqsUpTo(TailTokens, MaxTail)}

NormInit ==
    /\ nu \in NormInputs
    /\ nout = <<>>
    /\ npc = "start"
    /\ max_depth = 0 /\ max_pages = 1 /\ delay = 0 /\ respect_robots_txt = FALSE
    /\ visited = {} /\ robots_cache = <<>> /\ seed_urls = <<>>
    /\ base_domain = <<>> /\ queue = <<>> /\ pages = <<>> /\ pc = "off"
    /\ attempts = <<>> /\ enqueued = {} /\ robots_reads = <<>>
    /\ calls_left = 0
    /\ ExtractOff /\ TextOff

NormStep ==
    /\ npc = "start"
    /\ nout' = <<normalize_url(nu), normalize_url(normalize_url(nu))>>
    /\ npc' = "done"
    /\ UNCHANGED nu
    /\ UNCHANGED crawlVars
    /\ UNCHANGED <<extractVars, textVars>>

SpecNorm == NormInit /\ [][NormStep]_vars

Init ==
    /\ CrawlInit
    /\ nu = <<>>
    /\ nout = <<>>
    /\ npc = "off"
    /\ ExtractOff /\ TextOff

Next ==
    \/ CrawlStart /\ UNCHANGED <<normVars, extractVars, textVars>>
    \/ IterSkipVisited /\ UNCHANGED <<normVars, extractVars, textVars>>
    \/ IterSkipDepth /\ UNCHANGED <<normVars, extractVars, textVars>>
    \/ IterSkipFiltered /\ UNCHANGED <<normVars, extractVars, textVars>>
    \/ IterFetchFail /\ UNCHANGED <<normVars, extractVars, textVars>>
    \/ IterFetchOk /\ UNCHANGED <<normVars, extractVars, textVars>>
    \/ CrawlReturn /\ UNCHANGED <<normVars, extractVars, textVars>>

Spec == Init /\ [][Next]_vars

Idle == UNCHANGED <<normVars, extractVars, textVars>>

\* an iteration that passes the checks of lines 266 and 270
Attempt == (IterSkipFiltered \/ IterFetchFail \/ IterFetchOk) /\ Idle

\* a crawler on which crawl is called twice
AgainInit ==
    /\ max_depth \in {-1, 1}
    /\ max_pages = 2
    /\ delay = 0
    /\ respect_robots_txt \in BOOLEAN
    /\ visited = {}
    /\ robots_cache = <<>>
    /\ seed_urls = <<>>
    /\ base_domain = <<>>
    /\ queue = <<>>
    /\ pages = <<>>
    /\ pc = "idle"
    /\ attempts = <<>>
    /\ enqueued = {}
    /\ robots_reads = <<>>
    /\ calls_left = 1
    /\ nu = <<>> /\ nout = <<>> /\ npc = "off"
    /\ ExtractOff /\ TextOff

SpecAgain == AgainInit /\ [][Next]_vars

\* crawl runs in one thread and every call it makes returns (the fetch has a
\* timeout, the sleep is finite): a step that can be taken is taken.  The
\* last conjunct is WF_vars(Attempt), with ENABLED <<Attempt>>_vars written
\* as the state predicate Fetchable it is equivalent to: whatever
\* _should_crawl_url answers, the iteration ends, filtered or with a fetch.
SpecFair ==
    /\ Spec
    /\ WF_vars(CrawlStart /\ Idle)
    /\ WF_vars(IterSkipVisited /\ Idle)
    /\ WF_vars(IterSkipDepth /\ Idle)
    /\ WF_vars(CrawlReturn /\ Idle)
    /\ ([]<>(~Fetchable) \/ []<><<Attempt>>_vars)

(***************************************************************************)
(* Properties of URLCrawler                                                *)
(***************************************************************************)
PageUrls == {pages[i].url : i \in 1..Len(pages)}
OkAttempts == SelectSeq(attempts, LAMBDA a : a.result = "ok")
IsFailed(a) == a.result # "ok"

\* C1: the page list never holds more than max_pages pages, the list the
\* crawl returns included, and once the count has reached max_pages no
\* further fetch is attempted, whatever is left in the queue.
C1_PageCountBound ==
    [][/\ Len(pages') <= max_pages'
       /\ Len(pages) >= max_pages => attempts' = attempts /\ pages' = pages]_vars

C1_Witness ==
    pc = "done" /\ Len(pages) = max_pages /\ queue # <<>>

\* C2: every fetch attempt is for a queue entry of depth <= max_depth, and
\* links are put on the queue (at depth + 1) only from pages of depth
\* < max_depth: no entry deeper than max_depth is ever enqueued by a page,
\* so a page at depth max_depth is fetched and not expanded.
C2_DepthBound ==
    /\ \A i \in 1..Len(attempts) : attempts[i].depth <= max_depth
    /\ \A e \in enqueued : e[2] = 0 \/ e[2] <= max_depth

C2_Witness ==
    /\ pc = "done"
    /\ \E i \in 1..Len(pages) :
          /\ pages[i].html # <<>>
          /\ \E j \in 1..Len(attempts) :
                /\ attempts[j].url = pages[i].url
                /\ attempts[j].depth = max_depth
                /\ attempts[j].depth > 0

\* robots allows url in the current state (nothing is cached as a refusal)
RobotsAllows(url) ==
    \/ ~respect_robots_txt
    \/ /\ base_domain \in DOMAIN robots_cache
       /\ \/ robots_cache[base_domain] = "None"
          \/ ParserCanFetch(robots_cache[base_domain], url)

\* C3: every fetched page, and every fetch attempt, is on the domain of the
\* first seed; a seed of another domain is never fetched, and it does not
\* stop the crawl: when the crawl ends below the page limit, every seed the
\* admission filter accepts has been attempted.
C3_DomainConfinement ==
    /\ \A i \in 1..Len(pages) : get_domain(pages[i].url) = get_domain(seed_urls[1])
    /\ \A i \in 1..Len(attempts) :
          get_domain(attempts[i].url) = get_domain(seed_urls[1])
    /\ (pc = "done" /\ Len(pages) < max_pages /\ max_depth >= 0) =>
          \A i \in 1..Len(seed_urls) :
             (PassesStaticRules(seed_urls[i], base_domain) /\ RobotsAllows(seed_urls[i]))
                => seed_urls[i] \in visited

C3_Witness ==
    /\ pc = "done"
    /\ \E i \in 1..Len(seed_urls) :
          /\ get_domain(seed_urls[i]) # base_domain
          /\ \E j \in (i + 1)..Len(seed_urls) : seed_urls[j] \in PageUrls

\* C4: within one crawl no two fetch attempts are made for URLs that
\* normalize to the same URL (links that differ only in fragment or
\* trailing slash are one page), and no such URL is twice in the page list.
C4_FetchedOncePerNormalizedUrl ==
    /\ \A i, j \in 1..Len(attempts) :
          i # j => normalize_url(attempts[i].url) # normalize_url(attempts[j].url)
    /\ \A i, j \in 1..Len(pages) :
          i # j => normalize_url(pages[i].url) # normalize_url(pages[j].url)

\* C5: no URL with a scheme other than http(s), with a denylisted final
\* extension or with a denylisted path component (compared without case)
\* is ever fetched or in the page list, be it a seed or a discovered link.
Admissible(url) ==
    LET parsed == urlparse(url)
        parts == SplitSlash(parsed.path)
    IN /\ parsed.scheme \in {<<"http">>, <<"https">>}
       /\ ~(Len(parsed.path) > 0 /\ LowerWord(parsed.path[Len(parsed.path)]) \in ExtWords)
       /\ \A k \in 1..Len(parts) : Lower(parts[k]) \notin {<<d>> : d \in DenyParts}

C5_AdmissionFilter ==
    /\ \A i \in 1..Len(attempts) : Admissible(attempts[i].url)
    /\ \A i \in 1..Len(pages) : Admissible(pages[i].url)

C5_Witness ==
    /\ pc = "done"
    /\ \E i \in 1..Len(seed_urls) : ~Admissible(seed_urls[i])
    /\ \E i \in 1..Len(pages) :
          /\ \E k \in 1..Len(pages[i].html) :
                ~Admissible(extract_links(pages[i].html, pages[i].url)[k])
          /\ \E j \in 1..Len(attempts) :
                attempts[j].url = pages[i].url /\ attempts[j].depth < max_depth

\* C6: normalizing a normalized URL changes nothing.
C6_NormalizeIdempotent ==
    npc = "done" => nout[2] = nout[1]

\* C7: a fetch that fails adds no page, enqueues nothing and leaves the
\* crawl in its loop; the URL of a failed fetch is not in the page list.
C7_FailedFetchYieldsNoPage ==
    [][(Len(attempts') = Len(attempts) + 1 /\ IsFailed(attempts'[Len(attempts')]))
         => /\ pages' = pages
            /\ queue' = Tail(queue)
            /\ enqueued' = enqueued
            /\ pc' = "loop"
            /\ attempts'[Len(attempts')].url \notin PageUrls]_vars

C7_Witness ==
    \E i, j \in 1..Len(attempts) :
       /\ i < j
       /\ attempts[i].result = "request_exception"
       /\ attempts[j].result = "ok"
       /\ \E k \in 1..Len(attempts) : attempts[k].result = "not_html"

\* C8: with delay > 0 every fetch attempt that is followed by another one
\* is followed by the delay first.
C8_DelayAfterEveryAttempt ==
    delay > 0 => \A i \in 1..(Len(attempts) - 1) : attempts[i].slept

Whitespace == {" ", "\n"}

UpperChars == <<"A", "B", "C", "D", "E", "F", "G", "H", "I", "J", "K", "L",
    "M", "N", "O", "P", "Q", "R", "S", "T", "U", "V", "W", "X", "Y", "Z">>
LowerChars == <<"a", "b", "c", "d", "e", "f", "g", "h", "i", "j", "k", "l",
    "m", "n", "o", "p", "q", "r", "s", "t", "u", "v", "w", "x", "y", "z">>

Digits == {"0", "1", "2", "3", "4", "5", "6", "7", "8", "9"}

\* str.lower on one character and on a text
lower_char(c) ==
    LET i == Find(UpperChars, c, 1)
    IN IF i > 0 THEN LowerChars[i] ELSE c

lower(s) == [i \in 1..Len(s) |-> lower_char(s[i])]

\* str.strip()
strip(s) ==
    LET keep == {i \in 1..Len(s) : s[i] \notin Whitespace}
    IN IF keep = {} THEN <<>>
       ELSE SubSeq(s, CHOOSE i \in keep : \A j \in keep : i <= j,
                   CHOOSE i \in keep : \A j \in keep : i >= j)

\* re.sub(r'\s+', ' ', s)
CollapseWs(s) ==
    LET kept == SelectSeq([i \in 1..Len(s) |-> i],
                          LAMBDA i : \/ s[i] \notin Whitespace
                                     \/ i = 1
                                     \/ s[i - 1] \notin Whitespace)
    IN [k \in 1..Len(kept) |->
            IF s[kept[k]] \in Whitespace THEN " " ELSE s[kept[k]]]

\* sep.join(parts)
RECURSIVE Join(_, _)
Join(parts, sep) ==
    IF parts = <<>> THEN <<>>
    ELSE IF Len(parts) = 1 THEN parts[1]
    ELSE parts[1] \o sep \o Join(Tail(parts), sep)

\* w in s, for texts
Contains(s, w) ==
    \E i \in 1..(Len(s) - Len(w) + 1) : SubSeq(s, i, i + Len(w) - 1) = w

\* the elements of a sequence, as a set
Range(s) == {s[i] : i \in 1..Len(s)}

(***************************************************************************)
(* ContentParser (src/pulse/parser.py).  An element of a document is       *)
(* [tag, text, chrome]: its tag name, its one text node, and whether it    *)
(* lies inside an element that BOILERPLATE_SELECTORS selects.  The         *)
(* elements other than <title> are the content of <body>, which is the     *)
(* main-content region.                                                    *)
(***************************************************************************)
_remove_boilerplate(html) == SelectSeq(html, LAMBDA e : ~e.chrome)

\* tag.get_text(strip=True)
get_text(e) == strip(e.text)

\* soup.find_all(name)
find_all(soup, name) == SelectSeq(soup, LAMBDA e : e.tag = name)

HeadingTag == <<"h1", "h2", "h3", "h4">>

\* one pass of the outer loop of _extract_headings: the records of one level
HeadingsOfLevel(soup, level) ==
    LET found == SelectSeq(find_all(soup, HeadingTag[level]),
                           LAMBDA e : get_text(e) # <<>>)
    IN [i \in 1..Len(found) |-> [level |-> level, text |-> get_text(found[i])]]

_extract_headings(soup) ==
    HeadingsOfLevel(soup, 1) \o HeadingsOfLevel(soup, 2)
    \o HeadingsOfLevel(soup, 3) \o HeadingsOfLevel(soup, 4)

_extract_title(soup) ==
    LET titles == find_all(soup, "title")
        h1s == find_all(soup, "h1")
    IN IF titles # <<>> /\ get_text(titles[1]) # <<>> THEN get_text(titles[1])
       ELSE IF h1s # <<>> THEN get_text(h1s[1])
       ELSE <<>>

_extract_content_blocks(soup) ==
    LET found == SelectSeq(soup, LAMBDA e : /\ e.tag \in {"p", "li", "td", "th"}
                                            /\ Len(get_text(e)) > 20)
    IN [i \in 1..Len(found) |-> [type |-> found[i].tag, text |-> get_text(found[i])]]

_extract_text(soup) ==
    LET body == SelectSeq(soup, LAMBDA e : e.tag # "title" /\ get_text(e) # <<>>)
    IN strip(CollapseWs(Join([i \in 1..Len(body) |-> get_text(body[i])], <<" ">>)))

ParseSoup(soup, url) ==
    [url |-> url, title |-> _extract_title(soup),
     headings |-> _extract_headings(soup),
     content_blocks |-> _extract_content_blocks(soup),
     text |-> _extract_text(soup)]

parse(html, url) == ParseSoup(_remove_boilerplate(html), url)

(***************************************************************************)
(* Documents the crawl may return.  Txt names the texts the documents hold.*)
(***************************************************************************)
Txt ==
    [ Billing |-> <<"B", "i", "l", "l", "i", "n", "g">>,
      Invoices |-> <<"I", "n", "v", "o", "i", "c", "e", "s">>,
      Refunds |-> <<"R", "e", "f", "u", "n", "d", "s">>,
      Setup |-> <<"S", "e", "t", "u", "p">>,
      NumSetup |-> <<"1", ".", " ", "S", "e", "t", "u", "p">>,
      Install |-> <<"I", "n", "s", "t", "a", "l", "l">>,
      Usage |-> <<"U", "s", "a", "g", "e">>,
      Flags |-> <<"F", "l", "a", "g", "s">>,
      Linux |-> <<"L", "i", "n", "u", "x">>,
      Auth |-> <<"A", "u", "t", "h">>,
      Tokens |-> <<"T", "o", "k", "e", "n", "s">>,
      Start |-> <<"S", "t", "a", "r", "t">>,
      Menu |-> <<"M", "e", "n", "u">>,
      Hashes |-> <<"#", "#">>,
      Ab |-> <<"a", "b">>,
      Blank |-> <<" ", " ">>,
      GettingStarted |-> <<" ", "1", ".", "2", " ", "G", "e", "t", "t",
          "i", "n", "g", " ", "S", "t", "a", "r", "t", "e", "d">>,
      BillingDocs |-> <<"B", "i", "l", "l", "i", "n", "g", " ", "d", "o",
          "c", "s">>,
      PBilling |-> <<"M", "a", "n", "a", "g", "e", "s", " ", "i", "n", "v",
          "o", "i", "c", "e", "s", " ", "a", "n", "d", " ", "p", "a", "y",
          "m", "e", "n", "t", "s", " ", "f", "o", "r", " ", "c", "u", "s",
          "t", "o", "m", "e", "r", "s", ".">>,
      PInvoices |-> <<"C", "r", "e", "a", "t", "e", "s", " ", "a", "n",
          " ", "i", "n", "v", "o", "i", "c", "e", " ", "f", "o", "r", " ",
          "e", "a", "c", "h", " ", "o", "r", "d", "e", "r", ".", "\n", "S",
          "e", "e", " ", "a", "l", "s", "o", ":", " ", "t", "h", "e", " ",
          "r", "e", "f", "u", "n", "d", "s", " ", "p", "a", "g", "e">>,
      PRefunds |-> <<"H", "a", "n", "d", "l", "e", "s", " ", "r", "e", "f",
          "u", "n", "d", "s", " ", "f", "o", "r", " ", "p", "a", "i", "d",
          " ", "o", "r", "d", "e", "r", "s", "!", " ", "I", "s", " ", "i",
          "t", " ", "f", "a", "s", "t", "?">>,
      PShort |-> <<"S", "h", "o", "r", "t", " ", "t", "e", "x", "t">> ]

\* the heading text "Topic c"
Topic(c) == <<"T", "o", "p", "i", "c", " ", c>>

El(tag, text) == [tag |-> tag, text |-> text, chrome |-> FALSE]

\* an element inside <nav>
InNav(tag, text) == [tag |-> tag, text |-> text, chrome |-> TRUE]

Page(path, html) == [url |-> Http(<<"a", "/">> \o path), html |-> html]

\* <h2>Topic c</h2> for every c of cs, in order
TopicHeadings(cs) == [i \in 1..Len(cs) |-> El("h2", Topic(cs[i]))]

PageLists ==
    { <<>>,
      \* one H1 with two H2 sections, a paragraph under each
      << Page(<<"docs", "/", "billing">>,
              << El("title", Txt.BillingDocs), InNav("h2", Txt.Menu),
                 El("h1", Txt.Billing), El("p", Txt.PBilling),
                 El("h2", Txt.Invoices), El("p", Txt.PInvoices),
                 El("h2", Txt.Refunds), El("p", Txt.PRefunds) >>) >>,
      \* two H1 sections on one page, an H2 under each
      << Page(<<"guide">>,
              << El("h1", Txt.Setup), El("h2", Txt.Install), El("p", Txt.PBilling),
                 El("h1", Txt.Usage), El("h2", Txt.Flags) >>) >>,
      \* an H1 page followed by a page without H1
      << Page(<<"billing">>, << El("h1", Txt.Billing), El("p", Txt.PBilling) >>),
         Page(<<"refunds">>, << El("h2", Txt.Refunds), El("p", Txt.PRefunds) >>) >>,
      \* no H1: H2 sections with H3 under them, one H2 text twice
      << Page(<<"guide">>,
              << El("h2", Txt.Install), El("h3", Txt.Linux), El("p", Txt.PBilling),
                 El("h2", Txt.Install), El("h5", Txt.Menu),
                 El("h2", Txt.Usage), El("h3", Txt.Flags), El("h4", Txt.Tokens) >>),
         Page(<<"more">>, << El("h3", Txt.Auth), El("h2", Txt.Usage) >>) >>,
      \* no H1: seventeen H2 texts, the last one again on a second page
      << Page(<<"topics">>,
              TopicHeadings(<<"a", "b", "c", "d", "e", "f", "g", "h", "i",
                              "j", "k", "l", "m", "n", "o", "p", "q">>)
              \o << El("h3", Txt.Linux), El("p", Txt.PRefunds) >>),
         Page(<<"more">>, TopicHeadings(<<"q">>)) >>,
      \* neither H1 nor H2: the URL paths decide
      << Page(<<"docs", "/", "api", "/", "x">>,
              << El("h3", Txt.Auth), El("h4", Txt.Tokens), El("p", Txt.PBilling) >>),
         Page(<<"guide">>, << El("h3", Txt.Start) >>),
         Page(<<"api", "/", "y">>, << El("h3", Txt.Hashes) >>) >>,
      << Page(<<"user-guide", "/", "x">>, << El("h3", Txt.Auth), El("h4", Txt.Ab) >>),
         Page(<<"user_guide">>, << El("h3", Txt.Tokens) >>),
         Page(<<"v1", "/", "api">>, << El("h3", Txt.Start), El("h3", Txt.Linux) >>) >>,
      \* a path segment of 101 characters
      << Page(<<"slug101", "/">>, << El("h3", Txt.Auth), El("h3", Txt.Tokens) >>) >>,
      \* H1 texts that clean to nothing, one usable H2
      << Page(<<"docs">>,
              << El("h1", Txt.Hashes), El("h1", Txt.Ab), El("h1", Txt.Blank),
                 El("h2", Txt.GettingStarted), El("h2", Txt.Ab),
                 El("h3", Txt.Install), El("h3", Txt.Hashes),
                 El("p", Txt.PInvoices) >>) >>,
      \* a module whose page holds a 10-character fragment and nothing else
      << Page(<<"billing">>, << El("h1", Txt.Billing), El("p", Txt.PShort) >>) >>,
      \* a module with too little text, its submodule described on another page
      << Page(<<"invoices">>, << El("h2", Txt.Invoices), El("p", Txt.PInvoices) >>),
         Page(<<"billing">>, << El("h1", Txt.Billing), El("h2", Txt.Invoices),
                                El("h2", Txt.Ab) >>) >>,
      \* a described module whose submodule is found on a page with too little text
      << Page(<<"refunds">>, << El("h2", Txt.Refunds) >>),
         Page(<<"billing">>, << El("h1", Txt.Billing), El("p", Txt.PBilling),
                                El("h2", Txt.Refunds) >>) >>,
      \* two H1 texts that clean to the same name
      << Page(<<"setup">>,
              << El("h1", Txt.Setup), El("h2", Txt.Install), El("p", Txt.PRefunds) >>),
         Page(<<"guide">>,
              << El("h1", Txt.NumSetup), El("h2", Txt.Install), El("h2", Txt.Usage),
                 El("p", Txt.PBilling) >>) >>,
      \* the same name on two pages, the second with a known submodule last
      << Page(<<"install">>,
              << El("h1", Txt.Setup), El("h2", Txt.Install), El("h2", Txt.Flags),
                 El("p", Txt.PRefunds) >>),
         Page(<<"usage">>,
              << El("h1", Txt.NumSetup), El("h2", Txt.Flags), El("h2", Txt.Usage),
                 El("h2", Txt.Install), El("p", Txt.PBilling) >>) >> }

(***************************************************************************)
(* ExtractionPipeline.extract (src/pulse/pipeline.py), steps 1 and 2.      *)
(***************************************************************************)
Log(level, message) == <<level, message>>

ExtractInit ==
    /\ fetched_pages = <<>> /\ parsed_pages = <<>> /\ modules_dict = <<>>
    /\ output_modules = <<>> /\ logs = <<>> /\ xpc = "start" /\ xi = 0
    /\ CrawlOff /\ NormOff /\ TextOff

\* step 1: the crawl returns its pages; no page ends the run
ExtractCrawl ==
    /\ xpc = "start"
    /\ \E ps \in PageLists :
        /\ fetched_pages' = ps
        /\ IF ps = <<>>
           THEN /\ logs' = << Log("INFO", "start"), Log("INFO", "step 1"),
                              Log("INFO", "crawled"), Log("WARNING", "no pages") >>
                /\ xpc' = "done"
                /\ xi' = 0
           ELSE /\ logs' = << Log("INFO", "start"), Log("INFO", "step 1"),
                              Log("INFO", "crawled"), Log("INFO", "step 2") >>
                /\ xpc' = "parse"
                /\ xi' = 1
    /\ UNCHANGED <<parsed_pages, modules_dict, output_modules>>

ParsePage_StopAtError ==
    /\ xpc = "parse"
    /\ xi <= Len(fetched_pages)
    /\ \E raised \in BOOLEAN :
        IF raised
        THEN /\ logs' = Append(logs, Log("WARNING", "error parsing"))
             /\ xi' = Len(fetched_pages) + 1
             /\ UNCHANGED parsed_pages
        ELSE /\ parsed_pages' = Append(parsed_pages,
                                       parse(fetched_pages[xi].html, fetched_pages[xi].url))
             /\ xi' = xi + 1
             /\ UNCHANGED logs
    /\ UNCHANGED <<fetched_pages, modules_dict, output_modules, xpc>>

\* step 2, one page: parsed, or dropped with a warning when the parser raises
ParsePage ==
    /\ xpc = "parse"
    /\ xi <= Len(fetched_pages)
    /\ \E raised \in BOOLEAN :
        IF raised
        THEN /\ logs' = Append(logs, Log("WARNING", "error parsing"))
             /\ UNCHANGED parsed_pages
        ELSE /\ parsed_pages' = Append(parsed_pages,
                                       parse(fetched_pages[xi].html, fetched_pages[xi].url))
             /\ UNCHANGED logs
    /\ xi' = xi + 1
    /\ UNCHANGED <<fetched_pages, modules_dict, output_modules, xpc>>

\* end of step 2: no parsed page ends the run
ParseEnd ==
    /\ xpc = "parse"
    /\ xi > Len(fetched_pages)
    /\ IF parsed_pages = <<>>
       THEN /\ logs' = logs \o << Log("INFO", "parsed"), Log("WARNING", "none parsed") >>
            /\ xpc' = "done"
       ELSE /\ logs' = logs \o << Log("INFO", "parsed"), Log("INFO", "step 3") >>
            /\ xpc' = "infer h1"
    /\ xi' = 0
    /\ UNCHANGED <<fetched_pages, parsed_pages, modules_dict, output_modules>>

(***************************************************************************)
(* ModuleInference (src/pulse/inference.py).  A dictionary is the sequence *)
(* of its entries in insertion order.  A module is [name, submodules,      *)
(* content, url, description], description being "" until the pipeline     *)
(* sets it; a submodule entry is [name, value].                            *)
(***************************************************************************)
MinNameLength == 3
MaxNameLength == 100
TopH2Limit == 15

\* markers of _clean_heading: '#', '*' and the characters U+2192, U+25BA, U+25BC
Markers == <<"#", "*", "U+2192", "U+25BA", "U+25BC">>

\* first index >= i of s whose character is not in set, Len(s) + 1 if none
SkipWhile(s, i, set) ==
    LET stops == {j \in i..Len(s) : s[j] \notin set}
    IN IF stops = {} THEN Len(s) + 1 ELSE CHOOSE j \in stops : \A k \in stops : j <= k

\* \.? at index i
SkipDot(s, i) == IF i <= Len(s) /\ s[i] = "." THEN i + 1 ELSE i

\* index after the match of ^\d+\.?\d*\.?\d*\s* in s, 1 when there is no match
OutlinePrefixEnd(s) ==
    IF s = <<>> \/ s[1] \notin Digits THEN 1
    ELSE SkipWhile(s, SkipWhile(s, SkipDot(s, SkipWhile(s, SkipDot(s,
             SkipWhile(s, 1, Digits)), Digits)), Digits), Whitespace)

\* text.replace(marker, '').strip() for the markers from the k-th on
RECURSIVE RemoveMarkers(_, _)
RemoveMarkers(text, k) ==
    IF k > Len(Markers) THEN text
    ELSE RemoveMarkers(strip(SelectSeq(text, LAMBDA c : c # Markers[k])), k + 1)

\* if len(text) > 100: text = text[:100].strip()
LimitLength(text) ==
    IF Len(text) > MaxNameLength THEN strip(Prefix(text, MaxNameLength)) ELSE text

StripOutlinePrefix(text) == From(text, OutlinePrefixEnd(text))

_clean_heading(text) ==
    strip(LimitLength(RemoveMarkers(StripOutlinePrefix(strip(text)), 1)))

\* the keys of a dictionary filled in the order of names
DictKeys(names) ==
    SelectSeq([i \in 1..Len(names) |-> i],
              LAMBDA i : \A j \in 1..(i - 1) : names[j] # names[i])

Keys(names) == [k \in 1..Len(DictKeys(names)) |-> names[DictKeys(names)[k]]]

\* infer_modules: the headings of one page, tagged with its URL
PageHeadings(page) ==
    [i \in 1..Len(page.headings) |->
        [level |-> page.headings[i].level, text |-> page.headings[i].text,
         url |-> page.url]]

\* infer_modules: all_headings
RECURSIVE AllHeadings(_)
AllHeadings(pps) ==
    IF pps = <<>> THEN <<>> ELSE PageHeadings(pps[1]) \o AllHeadings(Tail(pps))

OfLevel(headings, level) == SelectSeq(headings, LAMBDA h : h.level = level)

_extract_content_for_heading(heading, all_page_headings, page_text, content_blocks) ==
    LET hits == {i \in 1..Len(all_page_headings) :
                    /\ all_page_headings[i].text = heading.text
                    /\ all_page_headings[i].level = heading.level}
        heading_index == CHOOSE i \in hits : \A j \in hits : i <= j
        lead == IF /\ heading_index < Len(all_page_headings)
                   /\ all_page_headings[heading_index + 1].level > heading.level
                THEN <<Prefix(page_text, 1000)>> ELSE <<>>
        blocks == [i \in 1..(IF Len(content_blocks) > 5 THEN 5 ELSE Len(content_blocks))
                     |-> content_blocks[i].text]
        result == strip(Join(lead \o blocks, <<" ">>))
    IN IF hits = {} THEN Prefix(page_text, 500)
       ELSE IF result # <<>> THEN result
       ELSE Prefix(page_text, 500)

\* heading_content_map[f"{url}::{text}"]: the entry the last heading of that
\* text on the last page of that URL wrote, "" when there is none
content_map_get(pps, url, text) ==
    LET ps == {p \in 1..Len(pps) : /\ pps[p].url = url
                                   /\ \E i \in 1..Len(pps[p].headings) :
                                         pps[p].headings[i].text = text}
        p == CHOOSE q \in ps : \A r \in ps : q >= r
        hs == {i \in 1..Len(pps[p].headings) : pps[p].headings[i].text = text}
    IN IF ps = {} THEN <<>>
       ELSE _extract_content_for_heading(
                pps[p].headings[CHOOSE i \in hs : \A j \in hs : i >= j],
                pps[p].headings, pps[p].text, pps[p].content_blocks)

\* page_content_map[url]['text']
page_text_of(pps, url) ==
    LET ps == {p \in 1..Len(pps) : pps[p].url = url}
    IN IF ps = {} THEN <<>> ELSE pps[CHOOSE q \in ps : \A r \in ps : q >= r].text

\* _build_hierarchy: module_content of the heading a module is made from
ModuleContent(pps, h) ==
    IF content_map_get(pps, h.url, h.text) # <<>>
    THEN content_map_get(pps, h.url, h.text)
    ELSE page_text_of(pps, h.url)

\* the end of the forward scan: the last index before the first heading after
\* module_index whose level is <= module_level
ScanEnd(all_headings, module_index, module_level) ==
    LET stops == {i \in (module_index + 1)..Len(all_headings) :
                     all_headings[i].level <= module_level}
    IN IF stops = {} THEN Len(all_headings)
       ELSE (CHOOSE i \in stops : \A j \in stops : i <= j) - 1

\* the names (keys) of the dictionary _find_submodules_for_module returns; the
\* candidate lists it is passed are not read by it
_find_submodules_for_module(module_heading, all_headings) ==
    LET hits == {i \in 1..Len(all_headings) :
                    /\ all_headings[i].text = module_heading.text
                    /\ all_headings[i].url = module_heading.url}
        module_index == CHOOSE i \in hits : \A j \in hits : i <= j
        collected == SelectSeq(
            SubSeq(all_headings, module_index + 1,
                   ScanEnd(all_headings, module_index, module_heading.level)),
            LAMBDA h : /\ h.level = module_heading.level + 1
                       /\ Len(_clean_heading(h.text)) >= MinNameLength)
    IN IF hits = {} THEN <<>>
       ELSE Keys([i \in 1..Len(collected) |-> _clean_heading(collected[i].text)])

HasKey(dict, name) == \E i \in 1..Len(dict) : dict[i].name = name

IndexOf(dict, name) == CHOOSE i \in 1..Len(dict) : dict[i].name = name

NewModule(name, content, url) ==
    [name |-> name, submodules |-> <<>>, content |-> content, url |-> url,
     description |-> <<>>]

\* for sub_name in submodules: if sub_name not in module's submodules: add it
AddSubmodules(submodules, names) ==
    LET fresh == SelectSeq(names, LAMBDA n : ~HasKey(submodules, n))
    IN submodules \o [i \in 1..Len(fresh) |-> [name |-> fresh[i], value |-> <<>>]]

PutModule_LastWins(modules, name, h, pps, all_headings) ==
    LET with == IF HasKey(modules, name)
                THEN [modules EXCEPT ![IndexOf(modules, name)].content = ModuleContent(pps, h),
                                     ![IndexOf(modules, name)].url = h.url]
                ELSE Append(modules, NewModule(name, ModuleContent(pps, h), h.url))
    IN [with EXCEPT ![IndexOf(with, name)].submodules =
            AddSubmodules(@, _find_submodules_for_module(h, all_headings))]

\* the body of the loops of strategies 1 and 2 for one heading of a valid name
PutModule(modules, name, h, pps, all_headings) ==
    LET with == IF HasKey(modules, name) THEN modules
                ELSE Append(modules, NewModule(name, ModuleContent(pps, h), h.url))
    IN [with EXCEPT ![IndexOf(with, name)].submodules =
            AddSubmodules(@, _find_submodules_for_module(h, all_headings))]

\* strategy 1: the loop over h1_headings
RECURSIVE H1Modules(_, _, _, _)
H1Modules(h1_headings, pps, all_headings, modules) ==
    IF h1_headings = <<>> THEN modules
    ELSE H1Modules(Tail(h1_headings), pps, all_headings,
            IF Len(_clean_heading(h1_headings[1].text)) < MinNameLength THEN modules
            ELSE PutModule(modules, _clean_heading(h1_headings[1].text),
                           h1_headings[1], pps, all_headings))

\* h2_counts[text]
CountOf(h2_headings, text) ==
    Cardinality({i \in 1..Len(h2_headings) : h2_headings[i].text = text})

\* sorted(items, key = count, reverse = True): the sort is stable
RECURSIVE SortedByCount(_, _)
SortedByCount(texts, h2_headings) ==
    IF texts = <<>> THEN <<>>
    ELSE LET best == CHOOSE i \in 1..Len(texts) : \A j \in 1..Len(texts) :
                        \/ CountOf(h2_headings, texts[j]) < CountOf(h2_headings, texts[i])
                        \/ /\ CountOf(h2_headings, texts[j]) = CountOf(h2_headings, texts[i])
                           /\ i <= j
         IN <<texts[best]>>
            \o SortedByCount(SubSeq(texts, 1, best - 1) \o From(texts, best + 1),
                             h2_headings)

H2Texts(h2_headings) == Keys([i \in 1..Len(h2_headings) |-> h2_headings[i].text])

top_h2s(h2_headings) ==
    Prefix(SortedByCount(H2Texts(h2_headings), h2_headings), TopH2Limit)

\* h2_obj: the first H2 heading of that text
FirstOfText(h2_headings, text) ==
    h2_headings[CHOOSE i \in 1..Len(h2_headings) :
                    /\ h2_headings[i].text = text
                    /\ \A j \in 1..(i - 1) : h2_headings[j].text # text]

\* strategy 2: the loop over top_h2s
RECURSIVE H2Modules(_, _, _, _, _)
H2Modules(top, h2_headings, pps, all_headings, modules) ==
    IF top = <<>> THEN modules
    ELSE H2Modules(Tail(top), h2_headings, pps, all_headings,
            IF Len(_clean_heading(top[1])) < MinNameLength THEN modules
            ELSE PutModule(modules, _clean_heading(top[1]),
                           FirstOfText(h2_headings, top[1]), pps, all_headings))

Strategy2Applies_Always(modules, h2_headings) == h2_headings # <<>>

\* if not modules and h2_headings
Strategy2Applies(modules, h2_headings) == modules = <<>> /\ h2_headings # <<>>

(***************************************************************************)
(* Strategy 3.  A path segment is a token sequence; WordChars gives the    *)
(* characters of a word token ("slug101" stands for a word of 101          *)
(* characters).                                                            *)
(***************************************************************************)
WordChars(w) ==
    CASE w = "docs" -> <<"d", "o", "c", "s">>
      [] w = "api" -> <<"a", "p", "i">>
      [] w = "guide" -> <<"g", "u", "i", "d", "e">>
      [] w = "billing" -> <<"b", "i", "l", "l", "i", "n", "g">>
      [] w = "invoices" -> <<"i", "n", "v", "o", "i", "c", "e", "s">>
      [] w = "refunds" -> <<"r", "e", "f", "u", "n", "d", "s">>
      [] w = "setup" -> <<"s", "e", "t", "u", "p">>
      [] w = "topics" -> <<"t", "o", "p", "i", "c", "s">>
      [] w = "more" -> <<"m", "o", "r", "e">>
      [] w = "user-guide" -> <<"u", "s", "e", "r", "-", "g", "u", "i", "d", "e">>
      [] w = "user_guide" -> <<"u", "s", "e", "r", "_", "g", "u", "i", "d", "e">>
      [] w = "v1" -> <<"v", "1">>
      [] w = "slug101" -> [i \in 1..101 |-> "s"]
      [] OTHER -> <<w>>

RECURSIVE SegmentChars(_)
SegmentChars(segment) ==
    IF segment = <<>> THEN <<>>
    ELSE WordChars(segment[1]) \o SegmentChars(Tail(segment))

GenericSegments == {<<"docs">>, <<"documentation">>, <<"help">>, <<"support">>}

\* str.replace(old, new) for single characters
replace_char(s, old, new) == [i \in 1..Len(s) |-> IF s[i] = old THEN new ELSE s[i]]

upper_char(c) ==
    LET i == Find(LowerChars, c, 1)
    IN IF i > 0 THEN UpperChars[i] ELSE c

IsCased(c) == Find(LowerChars, c, 1) > 0 \/ Find(UpperChars, c, 1) > 0

\* str.title()
title(s) ==
    [i \in 1..Len(s) |->
        IF i = 1 \/ ~IsCased(s[i - 1]) THEN upper_char(s[i]) ELSE lower_char(s[i])]

\* segments of the path of url that are not empty and not generic
MeaningfulSegments(url) ==
    SelectSeq(SplitSlash(urlparse(url).path),
              LAMBDA s : s # <<>> /\ s \notin GenericSegments)

\* segments[0].replace('-', ' ').replace('_', ' ').title()
SegmentName(segment) ==
    title(replace_char(replace_char(SegmentChars(segment), "-", " "), "_", " "))

\* the key of url_groups a heading is filed under, "" when it is filed nowhere
module_segment(url) ==
    LET segments == MeaningfulSegments(url)
    IN IF segments = <<>> THEN <<>>
       ELSE IF Len(SegmentName(segments[1])) >= MinNameLength
       THEN SegmentName(segments[1])
       ELSE <<>>

\* url_groups[module_name]
UrlGroup(headings, module_name) ==
    SelectSeq(headings, LAMBDA h : module_segment(h.url) = module_name)

IsModuleGroup_Any(heading_list) == Len(heading_list) >= 1

\* if len(heading_list) >= 2
IsModuleGroup(heading_list) == Len(heading_list) >= 2

\* the submodule names a qualifying group gives its module
GroupSubmodules(heading_list) ==
    LET subs == SelectSeq(heading_list,
                          LAMBDA h : /\ h.level >= 2
                                     /\ Len(_clean_heading(h.text)) >= MinNameLength)
    IN Keys([i \in 1..Len(subs) |-> _clean_heading(subs[i].text)])

UrlModule(module_name, heading_list) ==
    [name |-> module_name,
     submodules |-> AddSubmodules(<<>>, GroupSubmodules(heading_list)),
     content |-> <<>>, url |-> heading_list[1].url, description |-> <<>>]

_infer_from_urls_and_titles(headings) ==
    LET filed == SelectSeq(headings, LAMBDA h : module_segment(h.url) # <<>>)
        names == Keys([i \in 1..Len(filed) |-> module_segment(filed[i].url)])
        chosen == SelectSeq(names, LAMBDA n : IsModuleGroup(UrlGroup(headings, n)))
    IN [i \in 1..Len(chosen) |-> UrlModule(chosen[i], UrlGroup(headings, chosen[i]))]

(***************************************************************************)
(* extract, step 3: infer_modules and the three strategies of              *)
(* _build_hierarchy, one step each.                                        *)
(***************************************************************************)
InferH1 ==
    /\ xpc = "infer h1"
    /\ modules_dict' = H1Modules(OfLevel(AllHeadings(parsed_pages), 1), parsed_pages,
                                 AllHeadings(parsed_pages), <<>>)
    /\ xpc' = "infer h2"
    /\ UNCHANGED <<fetched_pages, parsed_pages, output_modules, logs, xi>>

InferH2 ==
    /\ xpc = "infer h2"
    /\ modules_dict' =
         IF Strategy2Applies(modules_dict, OfLevel(AllHeadings(parsed_pages), 2))
         THEN H2Modules(top_h2s(OfLevel(AllHeadings(parsed_pages), 2)),
                        OfLevel(AllHeadings(parsed_pages), 2), parsed_pages,
                        AllHeadings(parsed_pages), modules_dict)
         ELSE modules_dict
    /\ xpc' = "infer url"
    /\ UNCHANGED <<fetched_pages, parsed_pages, output_modules, logs, xi>>

InferUrl ==
    /\ xpc = "infer url"
    /\ modules_dict' = IF modules_dict = <<>>
                       THEN _infer_from_urls_and_titles(AllHeadings(parsed_pages))
                       ELSE modules_dict
    /\ logs' = logs \o << Log("INFO", "inferred"), Log("INFO", "step 4") >>
    /\ xpc' = "describe"
    /\ xi' = 1
    /\ UNCHANGED <<fetched_pages, parsed_pages, output_modules>>

(***************************************************************************)
(* DescriptionSummarizer (src/pulse/summarizer.py).                        *)
(***************************************************************************)
max_sentences == 3
min_length == 20
MaxDescriptionLength == 500
MaxCandidates == 20

Terminators == {".", "!", "?"}

\* the lead-ins of patterns_to_remove, each followed by .* in the code
patterns_to_remove ==
    << <<"S", "e", "e", " ", "a", "l", "s", "o", ":">>,
       <<"R", "e", "l", "a", "t", "e", "d", ":">>,
       <<"N", "o", "t", "e", ":">>,
       <<"W", "a", "r", "n", "i", "n", "g", ":">>,
       <<"E", "x", "a", "m", "p", "l", "e", ":">>,
       <<"F", "o", "r", " ", "m", "o", "r", "e", " ", "i", "n", "f", "o",
          "r", "m", "a", "t", "i", "o", "n">>,
       <<"C", "l", "i", "c", "k", " ", "h", "e", "r", "e">>,
       <<"L", "e", "a", "r", "n", " ", "m", "o", "r", "e">> >>

action_words ==
    << <<"p", "r", "o", "v", "i", "d", "e", "s">>,
       <<"e", "n", "a", "b", "l", "e", "s">>,
       <<"a", "l", "l", "o", "w", "s">>,
       <<"s", "u", "p", "p", "o", "r", "t", "s">>,
       <<"m", "a", "n", "a", "g", "e", "s">>,
       <<"h", "a", "n", "d", "l", "e", "s">>,
       <<"p", "r", "o", "c", "e", "s", "s", "e", "s">>,
       <<"c", "r", "e", "a", "t", "e", "s">>,
       <<"g", "e", "n", "e", "r", "a", "t", "e", "s">>,
       <<"s", "e", "n", "d", "s">>,
       <<"r", "e", "c", "e", "i", "v", "e", "s">>,
       <<"c", "o", "n", "f", "i", "g", "u", "r", "e", "s">>,
       <<"s", "e", "t", "s">>,
       <<"d", "i", "s", "p", "l", "a", "y", "s">>,
       <<"s", "h", "o", "w", "s">> >>

\* s[i:].startswith(w), case folded as under re.IGNORECASE
StartsWithAt(s, i, w) ==
    /\ i + Len(w) - 1 <= Len(s)
    /\ lower(SubSeq(s, i, i + Len(w) - 1)) = lower(w)

\* re.sub(lead_in + '.*', '', content, flags=re.IGNORECASE) for the lead-ins
\* from the k-th on: the text holds no line break, so a match runs to its end
RECURSIVE RemoveNoise(_, _)
RemoveNoise(content, k) ==
    IF k > Len(patterns_to_remove) THEN content
    ELSE LET hits == {i \in 1..Len(content) :
                         StartsWithAt(content, i, patterns_to_remove[k])}
         IN RemoveNoise(IF hits = {} THEN content
                        ELSE Prefix(content,
                                    (CHOOSE i \in hits : \A j \in hits : i <= j) - 1),
                        k + 1)

\* a match of https?://\S+ starts at index i
IsUrlStart(s, i) ==
    \/ /\ i + 7 <= Len(s)
       /\ SubSeq(s, i, i + 6) = <<"h", "t", "t", "p", ":", "/", "/">>
       /\ s[i + 7] \notin Whitespace
    \/ /\ i + 8 <= Len(s)
       /\ SubSeq(s, i, i + 7) = <<"h", "t", "t", "p", "s", ":", "/", "/">>
       /\ s[i + 8] \notin Whitespace

\* first index >= i of s that holds whitespace, Len(s) + 1 if none
NextSpace(s, i) ==
    LET stops == {j \in i..Len(s) : s[j] \in Whitespace}
    IN IF stops = {} THEN Len(s) + 1 ELSE CHOOSE j \in stops : \A k \in stops : j <= k

\* re.sub(r'https?://\S+', '', content)
RECURSIVE RemoveUrls(_)
RemoveUrls(content) ==
    LET starts == {i \in 1..Len(content) : IsUrlStart(content, i)}
        first == CHOOSE i \in starts : \A j \in starts : i <= j
    IN IF starts = {} THEN content
       ELSE Prefix(content, first - 1)
            \o RemoveUrls(From(content, NextSpace(content, first)))

\* re.sub(r'\S+@\S+', '', content): a run of non-whitespace with an inner @
RECURSIVE RemoveEmails(_)
RemoveEmails(content) ==
    LET ats == {p \in 2..(Len(content) - 1) :
                   /\ content[p] = "@"
                   /\ content[p - 1] \notin Whitespace
                   /\ content[p + 1] \notin Whitespace}
        first == CHOOSE p \in ats : \A q \in ats : p <= q
        before == {j \in 1..first : content[j] \in Whitespace}
    IN IF ats = {} THEN content
       ELSE (IF before = {} THEN <<>>
             ELSE Prefix(content, CHOOSE j \in before : \A k \in before : j >= k))
            \o RemoveEmails(From(content, NextSpace(content, first)))

_clean_content(content) ==
    strip(RemoveEmails(RemoveUrls(RemoveNoise(strip(CollapseWs(content)), 1))))

\* re.split(r'(?<=[.!?])\s+', text)
RECURSIVE SplitSentences(_)
SplitSentences(text) ==
    LET cuts == {i \in 2..Len(text) :
                    text[i] \in Whitespace /\ text[i - 1] \in Terminators}
        cut == CHOOSE i \in cuts : \A j \in cuts : i <= j
    IN IF cuts = {} THEN <<text>>
       ELSE <<Prefix(text, cut - 1)>>
            \o SplitSentences(From(text, SkipWhile(text, cut, Whitespace)))

\* nav_patterns 2 to 8: word, \s+ or \s*, the text after it, $ or not
NavPatterns ==
    << [word |-> <<"C", "l", "i", "c", "k">>, spaces |-> 1, then |-> <<>>, end |-> FALSE],
       [word |-> <<"S", "e", "l", "e", "c", "t">>, spaces |-> 1, then |-> <<>>,
        end |-> FALSE],
       [word |-> <<"N", "a", "v", "i", "g", "a", "t", "e">>, spaces |-> 1,
        then |-> <<"t", "o">>, end |-> FALSE],
       [word |-> <<"G", "o">>, spaces |-> 1, then |-> <<"t", "o">>, end |-> FALSE],
       [word |-> <<"M", "e", "n", "u">>, spaces |-> 0, then |-> <<":">>, end |-> FALSE],
       [word |-> <<"H", "o", "m", "e">>, spaces |-> 0, then |-> <<>>, end |-> TRUE],
       [word |-> <<"B", "a", "c", "k">>, spaces |-> 0, then |-> <<>>, end |-> TRUE] >>

\* re.match(pattern, text, re.IGNORECASE) for one of NavPatterns
NavMatch(text, p) ==
    LET after == SkipWhile(text, Len(p.word) + 1, Whitespace)
    IN /\ StartsWithAt(text, 1, p.word)
       /\ after - (Len(p.word) + 1) >= p.spaces
       /\ StartsWithAt(text, after, p.then)
       /\ p.end => after > Len(text)

\* nav_patterns 1: ^[A-Z][a-z]+\s+ and the characters U+00E2 U+2020 U+2019,
\* under re.IGNORECASE
ArrowMatch(text) ==
    LET word == SkipWhile(text, 1, Range(UpperChars) \cup Range(LowerChars))
        after == SkipWhile(text, word, Whitespace)
    IN /\ word > 2
       /\ after > word
       /\ StartsWithAt(text, after, <<"U+00E2", "U+2020", "U+2019">>)

_is_navigation_text(text) ==
    \/ ArrowMatch(text)
    \/ \E k \in 1..Len(NavPatterns) : NavMatch(text, NavPatterns[k])

_extract_sentences_NoFilter(text) ==
    [i \in 1..Len(SplitSentences(text)) |-> strip(SplitSentences(text)[i])]

\* the pieces stripped, those of 20 to 300 characters that are not
\* navigation text kept
FilteredSentences(pieces) ==
    SelectSeq([i \in 1..Len(pieces) |-> strip(pieces[i])],
              LAMBDA sent : /\ 20 <= Len(sent) /\ Len(sent) <= 300
                            /\ ~_is_navigation_text(sent))

_extract_sentences(text) ==
    CHOOSE filtered \in {FilteredSentences(SplitSentences(text))} : TRUE

\* len(sentence.split())
WordCount(sentence) ==
    Cardinality({i \in 1..Len(sentence) :
                    /\ sentence[i] \notin Whitespace
                    /\ i = 1 \/ sentence[i - 1] \in Whitespace})

UpperCount(sentence) ==
    Cardinality({i \in 1..Len(sentence) : Find(UpperChars, sentence[i], 1) > 0})

_score_sentence_PerVerb(sentence) ==
    4 * Cardinality({k \in 1..Len(action_words) :
                        Contains(lower(sentence), action_words[k])})
    + (IF Contains(sentence, <<"?">>) THEN -2 ELSE 0)
    + (IF WordCount(sentence) >= 8 THEN 2 ELSE 0)
    + (IF 10 * UpperCount(sentence) > 3 * Len(sentence) THEN -4 ELSE 0)
    + (IF Len(sentence) < 40 THEN -1 ELSE 0)

\* twice the score of _score_sentence, the scores being multiples of 0.5
_score_sentence(sentence) ==
    (IF \E k \in 1..Len(action_words) : Contains(lower(sentence), action_words[k])
     THEN 4 ELSE 0)
    + (IF Contains(sentence, <<"?">>) THEN -2 ELSE 0)
    + (IF WordCount(sentence) >= 8 THEN 2 ELSE 0)
    + (IF 10 * UpperCount(sentence) > 3 * Len(sentence) THEN -4 ELSE 0)
    + (IF Len(sentence) < 40 THEN -1 ELSE 0)

\* scored.sort(key = score, reverse = True) and scored[:n]: the sort is stable
RECURSIVE TopScored(_, _)
TopScored(candidates, n) ==
    IF n = 0 \/ candidates = <<>> THEN <<>>
    ELSE LET best == CHOOSE i \in 1..Len(candidates) : \A j \in 1..Len(candidates) :
                        \/ _score_sentence(candidates[j]) < _score_sentence(candidates[i])
                        \/ /\ _score_sentence(candidates[j]) = _score_sentence(candidates[i])
                           /\ i <= j
         IN <<candidates[best]>>
            \o TopScored(SubSeq(candidates, 1, best - 1) \o From(candidates, best + 1),
                         n - 1)

_select_sentences(sentences) ==
    LET selected == Range(TopScored(Prefix(sentences, MaxCandidates), max_sentences))
        result == Prefix(SelectSeq(sentences, LAMBDA sent : sent \in selected),
                         max_sentences)
    IN IF sentences = <<>> THEN <<>>
       ELSE IF result # <<>> THEN result
       ELSE Prefix(sentences, max_sentences)

Truncated_All(sentences, length) == sentences

\* the loop that keeps whole sentences within the 500 characters
RECURSIVE Truncated(_, _)
Truncated(sentences, length) ==
    IF sentences = <<>> THEN <<>>
    ELSE IF length + Len(sentences[1]) <= MaxDescriptionLength
    THEN <<sentences[1]>> \o Truncated(Tail(sentences), length + Len(sentences[1]) + 1)
    ELSE <<>>

EndPunctuated_Never(description) == description

\* if description and not description[-1] in '.!?': description += '.'
EndPunctuated(description) ==
    IF description # <<>> /\ description[Len(description)] \notin Terminators
    THEN Append(description, ".")
    ELSE description

MinLengthKept_NoCheck(description) == TRUE

\* _finalize_description: not (len(description) < self.min_length)
MinLengthKept(description) == Len(description) >= min_length

\* _finalize_description from the minimum-length check on
Finalized(description) ==
    IF ~MinLengthKept(description) THEN <<>>
    ELSE IF Len(description) > MaxDescriptionLength
    THEN strip(Join(Truncated(SplitSentences(description), 0), <<" ">>))
    ELSE strip(description)

_finalize_description(description) ==
    Finalized(EndPunctuated(strip(CollapseWs(description))))

\* generate_description after the first check
Described(sentences) ==
    IF sentences = <<>> THEN <<>>
    ELSE _finalize_description(Join(_select_sentences(sentences), <<" ">>))

generate_description(content) ==
    IF content = <<>> \/ Len(strip(content)) < min_length THEN <<>>
    ELSE Described(_extract_sentences(_clean_content(content)))

(***************************************************************************)
(* extract, steps 4 and 5, and _format_output.                             *)
(***************************************************************************)
\* the content extract finds for a name that came without any: the text of
\* the first parsed page that has text and a heading whose text holds the name
FindContent(pps, name) ==
    LET ps == {p \in 1..Len(pps) :
                  /\ pps[p].text # <<>>
                  /\ \E i \in 1..Len(pps[p].headings) :
                        Contains(lower(pps[p].headings[i].text), lower(name))}
    IN IF ps = {} THEN <<>> ELSE pps[CHOOSE p \in ps : \A q \in ps : p <= q].text

ContentOr(content, pps, name) ==
    IF content # <<>> THEN content ELSE FindContent(pps, name)

\* one pass of the loop of step 4: the descriptions of a module and its submodules
DescribedModule(m, pps) ==
    [m EXCEPT
        !.description = generate_description(ContentOr(m.content, pps, m.name)),
        !.submodules = [j \in 1..Len(m.submodules) |->
            [name |-> m.submodules[j].name,
             value |-> generate_description(
                           ContentOr(m.submodules[j].value, pps, m.submodules[j].name))]]]

DescribeModule ==
    /\ xpc = "describe"
    /\ xi <= Len(modules_dict)
    /\ modules_dict' = [modules_dict EXCEPT ![xi] = DescribedModule(@, parsed_pages)]
    /\ xi' = xi + 1
    /\ UNCHANGED <<fetched_pages, parsed_pages, output_modules, logs, xpc>>

\* _format_output: module_desc
ModuleDesc(m) ==
    IF m.description # <<>> THEN m.description ELSE generate_description(m.content)

KeptSubmodules_All(m) == m.submodules

\* _format_output: submodules_dict
KeptSubmodules(m) == SelectSeq(m.submodules, LAMBDA s : s.value # <<>>)

IsEmitted_Always(m) == TRUE

\* _format_output: if module_desc or submodules_dict
IsEmitted(m) == ModuleDesc(m) # <<>> \/ KeptSubmodules(m) # <<>>

ModuleFor == <<"M", "o", "d", "u", "l", "e", " ", "f", "o", "r", " ">>

OutputRecord(m) ==
    [module |-> m.name,
     Description |-> IF ModuleDesc(m) # <<>> THEN ModuleDesc(m) ELSE ModuleFor \o m.name,
     Submodules |-> KeptSubmodules(m)]

_format_output(modules) ==
    LET emitted == SelectSeq(modules, IsEmitted)
    IN [i \in 1..Len(emitted) |-> OutputRecord(emitted[i])]

\* step 5 and the return of extract
FormatOutput ==
    /\ xpc = "describe"
    /\ xi > Len(modules_dict)
    /\ output_modules' = _format_output(modules_dict)
    /\ logs' = logs \o << Log("INFO", "step 5"), Log("INFO", "complete") >>
    /\ xpc' = "done"
    /\ xi' = 0
    /\ UNCHANGED <<fetched_pages, parsed_pages, modules_dict>>

PipelineError_Propagates ==
    /\ xpc \in {"start", "infer h1", "infer h2", "infer url", "describe"}
    /\ xpc' = "raised"
    /\ xi' = 0
    /\ UNCHANGED <<fetched_pages, parsed_pages, modules_dict, output_modules, logs>>

\* except Exception: an exception of the crawl, of inference, of the
\* summarizer or of _format_output ends the run with two ERROR entries and
\* no module (the exceptions of the parser are caught page by page)
PipelineError ==
    /\ xpc \in {"start", "infer h1", "infer h2", "infer url", "describe"}
    /\ logs' = (IF xpc = "start"
                THEN << Log("INFO", "start"), Log("INFO", "step 1") >>
                ELSE logs)
               \o << Log("ERROR", "pipeline error"), Log("ERROR", "traceback") >>
    /\ output_modules' = <<>>
    /\ xpc' = "failed"
    /\ xi' = 0
    /\ UNCHANGED <<fetched_pages, parsed_pages, modules_dict>>

ExtractNext ==
    \/ ExtractCrawl /\ UNCHANGED <<crawlVars, normVars, textVars>>
    \/ ParsePage /\ UNCHANGED <<crawlVars, normVars, textVars>>
    \/ ParseEnd /\ UNCHANGED <<crawlVars, normVars, textVars>>
    \/ InferH1 /\ UNCHANGED <<crawlVars, normVars, textVars>>
    \/ InferH2 /\ UNCHANGED <<crawlVars, normVars, textVars>>
    \/ InferUrl /\ UNCHANGED <<crawlVars, normVars, textVars>>
    \/ DescribeModule /\ UNCHANGED <<crawlVars, normVars, textVars>>
    \/ FormatOutput /\ UNCHANGED <<crawlVars, normVars, textVars>>
    \/ PipelineError /\ UNCHANGED <<crawlVars, normVars, textVars>>

SpecExtract == ExtractInit /\ [][ExtractNext]_vars

(***************************************************************************)
(* Properties of ContentParser and ModuleInference                         *)
(***************************************************************************)
FetchedPage(url) ==
    fetched_pages[CHOOSE i \in 1..Len(fetched_pages) : fetched_pages[i].url = url]

\* the h1..h4 elements of a document that have text, as heading records in
\* the order of the document
DocumentHeadings(html) ==
    LET found == SelectSeq(_remove_boilerplate(html),
                           LAMBDA e : /\ \E l \in 1..4 : e.tag = HeadingTag[l]
                                      /\ get_text(e) # <<>>)
    IN [i \in 1..Len(found) |->
            [level |-> CHOOSE l \in 1..4 : HeadingTag[l] = found[i].tag,
             text |-> get_text(found[i])]]

\* the document headings of the p-th parsed page
DocH(p) == DocumentHeadings(FetchedPage(parsed_pages[p].url).html)

\* C11: the heading list of every parsed page holds one record per h1..h4
\* element with text, repeated texts included, in the order of the elements
\* in the document, whatever their levels.
C11_HeadingsInDocumentOrder ==
    \A p \in 1..Len(parsed_pages) : parsed_pages[p].headings = DocH(p)

Headings == AllHeadings(parsed_pages)

\* what strategy 1 makes of the parsed pages
StrategyOne == H1Modules(OfLevel(Headings, 1), parsed_pages, Headings, <<>>)

ModuleNames(modules) == {modules[k].name : k \in 1..Len(modules)}

SubmoduleNames(m) == {m.submodules[j].name : j \in 1..Len(m.submodules)}

\* C12: the strategies are tried in order and the first that yields a module
\* wins: the H2 strategy changes nothing when the H1 strategy produced a
\* module, and the URL-path strategy changes nothing when either did.
C12_FirstStrategyWins ==
    [][(xpc \in {"infer h2", "infer url"} /\ modules_dict # <<>>)
           => modules_dict' = modules_dict]_vars

\* the H1 strategy has won although the H2 headings and the URL paths would
\* each have given modules of their own
C12_Witness ==
    /\ xpc = "describe"
    /\ modules_dict # <<>>
    /\ modules_dict = StrategyOne
    /\ \E i \in 1..Len(Headings) :
          /\ Headings[i].level = 2
          /\ Len(_clean_heading(Headings[i].text)) >= 3
          /\ _clean_heading(Headings[i].text) \notin ModuleNames(modules_dict)
    /\ _infer_from_urls_and_titles(Headings) # <<>>

\* the names of the valid headings one level below level that follow the
\* k-th heading of hs before the next heading of a level <= level
SectionNames(hs, k, level) ==
    {_clean_heading(hs[j].text) :
        j \in {n \in (k + 1)..Len(hs) :
                  /\ hs[n].level = level + 1
                  /\ Len(_clean_heading(hs[n].text)) >= 3
                  /\ \A i \in (k + 1)..(n - 1) : hs[i].level > level}}

\* C13: after the H1 strategy, the submodules of a module are the level-2
\* headings that follow an H1 of that name in its own document before the
\* next H1 of that document; no other H2 is attached.
C13_H1SubmodulesFromOwnSection ==
    xpc = "infer h2" =>
        \A k \in 1..Len(modules_dict) :
            SubmoduleNames(modules_dict[k]) =
                UNION {UNION {SectionNames(DocH(p), i, 1) :
                                 i \in {n \in 1..Len(DocH(p)) :
                                           /\ DocH(p)[n].level = 1
                                           /\ _clean_heading(DocH(p)[n].text)
                                                = modules_dict[k].name}} :
                       p \in 1..Len(parsed_pages)}

H2TextSet == {Headings[i].text : i \in {n \in 1..Len(Headings) : Headings[n].level = 2}}

Occurrences(text) ==
    Cardinality({i \in 1..Len(Headings) :
                    Headings[i].level = 2 /\ Headings[i].text = text})

\* index in Headings of the first level-2 heading of that text
FirstSeen(text) ==
    CHOOSE i \in 1..Len(Headings) :
        /\ Headings[i].level = 2 /\ Headings[i].text = text
        /\ \A j \in 1..(i - 1) : ~(Headings[j].level = 2 /\ Headings[j].text = text)

\* the H2 texts that fewer than 15 others precede by count, then first seen
MostFrequentH2 ==
    {t \in H2TextSet :
        Cardinality({u \in H2TextSet :
                        \/ Occurrences(u) > Occurrences(t)
                        \/ /\ Occurrences(u) = Occurrences(t)
                           /\ FirstSeen(u) < FirstSeen(t)}) < 15}

\* the H2 texts a module of that name was made from
SourcesOf(name) == {t \in MostFrequentH2 : _clean_heading(t) = name}

\* the first parsed page with a level-2 heading of that text
FirstPageOf(text) ==
    CHOOSE p \in 1..Len(parsed_pages) :
        /\ \E i \in 1..Len(DocH(p)) : DocH(p)[i].level = 2 /\ DocH(p)[i].text = text
        /\ \A q \in 1..(p - 1) :
              \A i \in 1..Len(DocH(q)) : ~(DocH(q)[i].level = 2 /\ DocH(q)[i].text = text)

\* the place in its document of the first level-2 heading of that text
FirstInDocument(hs, text) ==
    CHOOSE i \in 1..Len(hs) :
        /\ hs[i].level = 2 /\ hs[i].text = text
        /\ \A j \in 1..(i - 1) : ~(hs[j].level = 2 /\ hs[j].text = text)

\* the level-3 names between the first H2 of that text and the next heading
\* of level <= 2 of its document
H2SectionNames(text) ==
    SectionNames(DocH(FirstPageOf(text)),
                 FirstInDocument(DocH(FirstPageOf(text)), text), 2)

\* C14: when the H1 strategy gave no module and there are H2 headings, at
\* most 15 modules result, they are the (valid) names of the 15 most
\* frequent H2 texts, ties by first occurrence, no text being chosen while a
\* more frequent one is left out, and the submodules of a module are the
\* level-3 headings between the first occurrence of its H2 text and the next
\* heading of level <= 2 of the document.
C14_H2Fallback ==
    (xpc = "infer url" /\ StrategyOne = <<>> /\ H2TextSet # {}) =>
        /\ Len(modules_dict) <= 15
        /\ ModuleNames(modules_dict)
             = {_clean_heading(t) : t \in {u \in MostFrequentH2 :
                                              Len(_clean_heading(u)) >= 3}}
        /\ \A k \in 1..Len(modules_dict) :
            /\ \A t \in SourcesOf(modules_dict[k].name) :
                 \A u \in H2TextSet \ MostFrequentH2 : Occurrences(u) <= Occurrences(t)
            /\ SubmoduleNames(modules_dict[k])
                 = UNION {H2SectionNames(t) : t \in SourcesOf(modules_dict[k].name)}

\* the first segment of the path of url that is neither empty nor generic,
\* <<>> when there is none
FirstSegment(url) ==
    LET segments == SplitSlash(urlparse(url).path)
        named == {i \in 1..Len(segments) :
                     segments[i] # <<>> /\ segments[i] \notin GenericSegments}
    IN IF named = {} THEN <<>>
       ELSE segments[CHOOSE i \in named : \A j \in named : i <= j]

\* the headings whose first segment is the given one
SegmentGroup(segment) ==
    {i \in 1..Len(Headings) : FirstSegment(Headings[i].url) = segment}

\* the headings whose first segment has the given name
NameGroup(name) ==
    {i \in 1..Len(Headings) :
        /\ FirstSegment(Headings[i].url) # <<>>
        /\ SegmentName(FirstSegment(Headings[i].url)) = name}

\* the valid names of the headings of level >= 2 among those of the indices
SubNames(indices) ==
    {_clean_heading(Headings[i].text) :
        i \in {n \in indices : /\ Headings[n].level >= 2
                               /\ Len(_clean_heading(Headings[n].text)) >= 3}}

ModuleNamed(modules, name) == modules[CHOOSE k \in 1..Len(modules) : modules[k].name = name]

\* C15 as stated: the headings are grouped by the first path segment that is
\* not empty and not generic, a group is a module exactly if it has at least
\* 2 headings, and the submodules of the module are the valid headings of
\* level >= 2 of that group.
C15_GroupsBySegment ==
    [][(xpc = "infer url" /\ xpc' = "describe" /\ modules_dict = <<>>) =>
        \A i \in 1..Len(Headings) :
            LET segment == FirstSegment(Headings[i].url)
            IN segment # <<>> =>
                /\ SegmentName(segment) \in ModuleNames(modules_dict')
                     <=> Cardinality(SegmentGroup(segment)) >= 2
                /\ SegmentName(segment) \in ModuleNames(modules_dict') =>
                     SubmoduleNames(ModuleNamed(modules_dict', SegmentName(segment)))
                       = SubNames(SegmentGroup(segment))]_vars

\* C15, amended: the headings are grouped by the name made from the first
\* path segment that is not empty and not generic, names of fewer than 3
\* characters forming no group; a group is a module exactly if it has at
\* least 2 headings; the submodules of the module are the valid headings of
\* level >= 2 of that group and of no other.
C15_GroupsBySegmentName ==
    [][(xpc = "infer url" /\ xpc' = "describe" /\ modules_dict = <<>>) =>
        /\ \A k \in 1..Len(modules_dict') :
              /\ Len(modules_dict'[k].name) >= 3
              /\ Cardinality(NameGroup(modules_dict'[k].name)) >= 2
              /\ SubmoduleNames(modules_dict'[k]) = SubNames(NameGroup(modules_dict'[k].name))
        /\ \A i \in 1..Len(Headings) :
              LET segment == FirstSegment(Headings[i].url)
              IN (/\ segment # <<>>
                  /\ Len(SegmentName(segment)) >= 3
                  /\ Cardinality(NameGroup(SegmentName(segment))) >= 2)
                 => SegmentName(segment) \in ModuleNames(modules_dict')]_vars

\* the URL-path strategy has made a module with submodules of one group and
\* none of another group, which has a single heading
C15_Witness ==
    /\ xpc = "describe"
    /\ StrategyOne = <<>>
    /\ H2TextSet = {}
    /\ \E k \in 1..Len(modules_dict) : modules_dict[k].submodules # <<>>
    /\ \E i \in 1..Len(Headings) :
          /\ FirstSegment(Headings[i].url) # <<>>
          /\ Len(SegmentName(FirstSegment(Headings[i].url))) >= 3
          /\ SegmentName(FirstSegment(Headings[i].url)) \notin ModuleNames(modules_dict)

\* C16: every module name and every submodule name that inference returns
\* has at least 3 and at most 100 characters, whichever strategy made it.
C16_NameLengths ==
    xpc = "describe" =>
        \A k \in 1..Len(modules_dict) :
            /\ Len(modules_dict[k].name) >= 3
            /\ Len(modules_dict[k].name) <= 100
            /\ \A j \in 1..Len(modules_dict[k].submodules) :
                  /\ Len(modules_dict[k].submodules[j].name) >= 3
                  /\ Len(modules_dict[k].submodules[j].name) <= 100

(***************************************************************************)
(* Heading cleaning on its own: _clean_heading applied to one text.  The   *)
(* texts are made of optional leading whitespace, an outline prefix of up  *)
(* to MaxOutlineParts numbers, an optional space, a body and optional      *)
(* trailing whitespace.                                                    *)
(***************************************************************************)
MaxOutlineParts == 4

DigitChars == <<"1", "2", "3", "4", "5", "6", "7", "8", "9">>

\* "1.2. ... .n"
RECURSIVE OutlineNumber(_)
OutlineNumber(n) ==
    IF n = 0 THEN <<>>
    ELSE IF n = 1 THEN <<DigitChars[1]>>
    ELSE OutlineNumber(n - 1) \o <<".", DigitChars[n]>>

OutlinePrefixes ==
    {OutlineNumber(n) : n \in 0..MaxOutlineParts}
    \cup {OutlineNumber(n) \o <<".">> : n \in 1..MaxOutlineParts}
    \cup {<<"1", "2">>, <<"1", "0", ".", "2">>}

RECURSIVE Repeat(_, _)
Repeat(c, n) == IF n = 0 THEN <<>> ELSE <<c>> \o Repeat(c, n - 1)

CleanBodies ==
    {<<>>, Txt.Setup, From(Txt.GettingStarted, 6), Txt.Hashes,
     <<"#", "N", "a", "*", "m", "e">>,
     <<"U+2192", " ", "G", "o">>,
     <<"*", " ", "#">>,
     <<"U+25BA", "U+25BC">>,
     Repeat("x", 99) \o <<" ", "y">>,
     Repeat("x", 100) \o <<"#">>}

CleanInputs ==
    {lead \o prefix \o gap \o body \o trail :
        lead \in {<<>>, <<" ">>}, prefix \in OutlinePrefixes,
        gap \in {<<>>, <<" ">>}, body \in CleanBodies,
        trail \in {<<>>, <<"\n">>}}

CleanInit ==
    /\ CrawlOff /\ NormOff /\ ExtractOff
    /\ text_in \in CleanInputs
    /\ text_out = <<>>
    /\ tpc = "clean"

\* result = self._clean_heading(text)
CleanStep ==
    /\ tpc = "clean"
    /\ text_out' = _clean_heading(text_in)
    /\ tpc' = "done"
    /\ UNCHANGED text_in

CleanNext == CleanStep /\ UNCHANGED <<crawlVars, normVars, extractVars>>

SpecClean == CleanInit /\ [][CleanNext]_vars

\* dot-separated numbers: digits and single dots, a digit first and last
IsOutlineNumber(s) ==
    /\ s # <<>>
    /\ \A i \in 1..Len(s) : s[i] \in Digits \cup {"."}
    /\ s[1] \in Digits /\ s[Len(s)] \in Digits
    /\ \A i \in 1..(Len(s) - 1) : ~(s[i] = "." /\ s[i + 1] = ".")

\* a name that cleaning has nothing to do to
IsCleanName(s) ==
    /\ s # <<>> /\ Len(s) <= 100
    /\ IsCased(s[1])
    /\ s = strip(s)
    /\ \A i \in 1..Len(s) : s[i] \notin Range(Markers)

\* C17: the cleaned heading holds no marker character, has no whitespace at
\* either end and at most 100 characters; a heading made of dot-separated
\* numbers, a space and a name N cleans to N; a heading made of markers
\* only cleans to the empty string.
C17_CleanHeading ==
    tpc = "done" =>
        /\ \A i \in 1..Len(text_out) : text_out[i] \notin Range(Markers)
        /\ text_out = strip(text_out)
        /\ Len(text_out) <= 100
        /\ \A k \in 1..Len(text_in) :
              (/\ IsOutlineNumber(Prefix(text_in, k - 1))
               /\ text_in[k] = " "
               /\ IsCleanName(From(text_in, k + 1)))
              => text_out = From(text_in, k + 1)
        /\ (text_in # <<>> /\ \A i \in 1..Len(text_in) : text_in[i] \in Range(Markers))
              => text_out = <<>>

(***************************************************************************)
(* Properties of the output of extract                                     *)
(***************************************************************************)
OutputNames == {output_modules[i].module : i \in 1..Len(output_modules)}

HasDescribedSubmodule(m) == \E j \in 1..Len(m.submodules) : m.submodules[j].value # <<>>

\* C18: a module is in the final output exactly if its generated
\* description is not empty or one of its submodules has a generated
\* description that is not empty; the output holds nothing else.
C18_EmittedIffDescribed ==
    xpc = "done" =>
        /\ \A k \in 1..Len(modules_dict) :
              modules_dict[k].name \in OutputNames
                <=> (modules_dict[k].description # <<>>
                     \/ HasDescribedSubmodule(modules_dict[k]))
        /\ OutputNames \subseteq ModuleNames(modules_dict)
        /\ Len(output_modules) = Cardinality(OutputNames)

\* a module with a little content, no description and no submodule has been
\* left out of the output
C18_Witness ==
    /\ xpc = "done"
    /\ \E k \in 1..Len(modules_dict) :
          /\ modules_dict[k].content # <<>>
          /\ Len(strip(modules_dict[k].content)) < 20
          /\ modules_dict[k].description = <<>>
          /\ modules_dict[k].submodules = <<>>
          /\ modules_dict[k].name \notin OutputNames

\* C19: every record of the output has a Description that is not empty, and
\* its Submodules are the submodules of the module whose description is not
\* empty, the others being omitted.
C19_NoEmptyDescription ==
    xpc = "done" =>
        \A i \in 1..Len(output_modules) :
            /\ output_modules[i].Description # <<>>
            /\ \A j \in 1..Len(output_modules[i].Submodules) :
                  output_modules[i].Submodules[j].value # <<>>
            /\ output_modules[i].module \in ModuleNames(modules_dict)
            /\ output_modules[i].Submodules
                 = SelectSeq(ModuleNamed(modules_dict, output_modules[i].module).submodules,
                             LAMBDA s : s.value # <<>>)

\* an emitted module whose only submodule has no description: the record
\* has an empty Submodules mapping
C19_Witness ==
    /\ xpc = "done"
    /\ \E i \in 1..Len(output_modules) :
          /\ output_modules[i].Submodules = <<>>
          /\ output_modules[i].module \in ModuleNames(modules_dict)
          /\ ModuleNamed(modules_dict, output_modules[i].module).submodules # <<>>

(***************************************************************************)
(* The summarizer on its own: generate_description applied to one content. *)
(* The contents are up to MaxPieces pieces joined by spaces, with optional *)
(* whitespace after them, three long ones and seven others.                *)
(***************************************************************************)
MaxPieces == 2

UrlNote == <<"R", "e", "a", "d", " ", "d", "o", "c", "s", " ", "a", "t",
    " ", "h", "t", "t", "p", ":", "/", "/", "x", ".", "i", "o", " ", "n",
    "o", "w", " ", "o", ".">>

Nineteen == <<"N", "i", "n", "e", "t", "e", "e", "n", " ", "c", "h", "a",
    "r", "s", " ", "t", "x", "t", ".">>

Mail == <<"S", "e", "e", " ", "a", "@", "b", ".", "c", "o", " ", "f", "o",
    "r", " ", "t", "h", "e", " ", "i", "n", "f", "o", ".">>

Twenty == <<"T", "w", "e", "n", "t", "y", " ", "c", "h", "a", "r", "a",
    "c", "t", "e", "r", "s", " ", "o", "k">>

\* a sentence of 265 characters
LongSentence ==
    <<"U", "s", "e", "s", " ">>
    \o Join([i \in 1..50 |-> <<"v", "e", "r", "y">>], <<" ">>)
    \o <<" ", "l", "o", "n", "g", " ", "t", "e", "x", "t", ".">>

UrlDocs == <<"S", "e", "e", " ", "d", "o", "c", "s", " ", "a", "t", " ",
    "h", "t", "t", "p", ":", "/", "/", "x", ".", "i", "o", " ", "f", "o",
    "r", " ", "t", "h", "e", " ", "d", "e", "t", "a", "i", "l", "s", ".">>

NavFirst == <<"G", "o", " ", "t", "o", " ", "t", "h", "e", " ", "s", "e",
    "t", "t", "i", "n", "g", "s", " ", "p", "a", "g", "e", " ", "f", "i",
    "r", "s", "t", ".", " ", "M", "a", "n", "a", "g", "e", "s", " ", "i",
    "n", "v", "o", "i", "c", "e", "s", " ", "a", "n", "d", " ", "p", "a",
    "y", "m", "e", "n", "t", "s", " ", "f", "o", "r", " ", "c", "u", "s",
    "t", "o", "m", "e", "r", "s", ".">>

FourSentences == <<"S", "h", "o", "r", "t", " ", "p", "l", "a", "i", "n",
    " ", "s", "e", "n", "t", "e", "n", "c", "e", " ", "h", "e", "r", "e",
    ".", " ", "M", "a", "n", "a", "g", "e", "s", " ", "i", "n", "v", "o",
    "i", "c", "e", "s", " ", "a", "n", "d", " ", "p", "a", "y", "m", "e",
    "n", "t", "s", " ", "f", "o", "r", " ", "c", "u", "s", "t", "o", "m",
    "e", "r", "s", ".", " ", "H", "a", "n", "d", "l", "e", "s", " ", "r",
    "e", "f", "u", "n", "d", "s", " ", "f", "o", "r", " ", "p", "a", "i",
    "d", " ", "o", "r", "d", "e", "r", "s", " ", "e", "v", "e", "r", "y",
    " ", "d", "a", "y", ".", " ", "C", "r", "e", "a", "t", "e", "s", " ",
    "a", "n", "d", " ", "s", "e", "n", "d", "s", " ", "a", "n", " ", "i",
    "n", "v", "o", "i", "c", "e", " ", "f", "o", "r", " ", "e", "a", "c",
    "h", " ", "n", "e", "w", " ", "o", "r", "d", "e", "r", " ", "p", "l",
    "a", "c", "e", "d", ".">>

Pieces ==
    {Txt.PShort, Txt.PBilling, Txt.PRefunds, UrlNote, Nineteen, Twenty}

DescribeInputs ==
    {Join(ps, <<" ">>) \o trail :
        ps \in UNION {[1..n -> Pieces] : n \in 0..MaxPieces},
        trail \in {<<>>, <<" ", "\n">>}}
    \cup {LongSentence, LongSentence \o <<" ">> \o LongSentence,
          Txt.PBilling \o <<" ">> \o LongSentence \o <<" ">> \o LongSentence,
          UrlDocs, NavFirst, FourSentences, Mail, Txt.PInvoices,
          Txt.PBilling \o <<" ">> \o Mail, Txt.PInvoices \o <<" ">> \o Txt.PRefunds}

DescribeInit ==
    /\ CrawlOff /\ NormOff /\ ExtractOff
    /\ text_in \in DescribeInputs
    /\ text_out = <<>>
    /\ tpc = "describe"

\* description = self.summarizer.generate_description(content)
DescribeStep ==
    /\ tpc = "describe"
    /\ text_out' = generate_description(text_in)
    /\ tpc' = "done"
    /\ UNCHANGED text_in

DescribeNext == DescribeStep /\ UNCHANGED <<crawlVars, normVars, extractVars>>

SpecDescribe == DescribeInit /\ [][DescribeNext]_vars

\* C20: the description of a content whose trimmed length is below 20 is
\* empty, and a description that is not empty has at least 20 characters.
C20_MinimumLength ==
    tpc = "done" =>
        /\ Len(strip(text_in)) < 20 => text_out = <<>>
        /\ text_out # <<>> => Len(text_out) >= 20

\* a content of 20 characters or more with a sentence to select, whose
\* description is empty because what finalization made of it is too short
C20_Witness ==
    /\ tpc = "done"
    /\ Len(strip(text_in)) >= 20
    /\ _extract_sentences(_clean_content(text_in)) # <<>>
    /\ text_out = <<>>

(***************************************************************************)
(* Properties of the description                                           *)
(***************************************************************************)
\* the sentences generate_description selects from a content
SelectedOf(content) == _select_sentences(_extract_sentences(_clean_content(content)))

\* the selection joined, collapsed and punctuated, before any length limit
Uncapped(content) ==
    EndPunctuated(strip(CollapseWs(Join(SelectedOf(content), <<" ">>))))

\* C21: a description that is not empty ends in '.', '!' or '?', also when
\* the 500-character limit has shortened it.
C21_EndsInPunctuation ==
    (tpc = "done" /\ text_out # <<>>) => text_out[Len(text_out)] \in {".", "!", "?"}

\* a description that the limit has shortened
C21_Witness ==
    /\ tpc = "done"
    /\ text_out # <<>>
    /\ Len(text_out) < Len(Uncapped(text_in))

\* the first k of the pieces, joined by single spaces
JoinedPrefix(pieces, k) == Join(Prefix(pieces, k), <<" ">>)

\* the longest run of leading whole sentences that stays within 500 characters
WithinBudget(pieces) ==
    JoinedPrefix(pieces,
                 CHOOSE k \in 0..Len(pieces) :
                    /\ Len(JoinedPrefix(pieces, k)) <= 500
                    /\ \A j \in (k + 1)..Len(pieces) : Len(JoinedPrefix(pieces, j)) > 500)

\* C22: a description has at most 500 characters; when the joined selection
\* is longer, the description is its longest run of leading whole sentences
\* that fits, and otherwise the selection is not shortened.
C22_LengthCap ==
    tpc = "done" =>
        \A uncapped \in {Uncapped(text_in)} :
            /\ Len(text_out) <= 500
            /\ Len(uncapped) > 500 => text_out = WithinBudget(SplitSentences(uncapped))
            /\ (Len(uncapped) <= 500 /\ text_out # <<>>) => text_out = uncapped

\* three sentences were selected and the first two of them are kept
C22_Witness ==
    /\ tpc = "done"
    /\ Len(Uncapped(text_in)) > 500
    /\ Len(SplitSentences(Uncapped(text_in))) = 3
    /\ Len(SplitSentences(text_out)) = 2

(***************************************************************************)
(* Sentence selection on its own: _select_sentences applied to one list of *)
(* candidate sentences.  The lists are all those of up to MaxListLen of    *)
(* three sentences, and a few others.   text_out holds the scores of    *)
(* the scored candidates and the result; a score is kept as twice its      *)
(* value, the scores being multiples of 0.5.                               *)
(***************************************************************************)
MaxListLen == 4

Sent ==
    [ Plain |-> <<"S", "h", "o", "r", "t", " ", "p", "l", "a", "i", "n",
          " ", "s", "e", "n", "t", "e", "n", "c", "e", " ", "h", "e", "r",
          "e", ".">>,
      Manages |-> <<"M", "a", "n", "a", "g", "e", "s", " ", "i", "n", "v",
          "o", "i", "c", "e", "s", " ", "a", "n", "d", " ", "p", "a", "y",
          "m", "e", "n", "t", "s", " ", "f", "o", "r", " ", "c", "u", "s",
          "t", "o", "m", "e", "r", "s", ".">>,
      Handles |-> <<"H", "a", "n", "d", "l", "e", "s", " ", "r", "e", "f",
          "u", "n", "d", "s", " ", "f", "o", "r", " ", "p", "a", "i", "d",
          " ", "o", "r", "d", "e", "r", "s", " ", "e", "v", "e", "r", "y",
          " ", "d", "a", "y", ".">>,
      Question |-> <<"I", "s", " ", "i", "t", " ", "f", "a", "s", "t", " ",
          "e", "n", "o", "u", "g", "h", " ", "f", "o", "r", " ", "t", "h",
          "e", " ", "t", "e", "a", "m", "?">>,
      TwoVerbs |-> <<"C", "r", "e", "a", "t", "e", "s", " ", "a", "n", "d",
          " ", "s", "e", "n", "d", "s", " ", "a", "n", " ", "i", "n", "v",
          "o", "i", "c", "e", " ", "f", "o", "r", " ", "e", "a", "c", "h",
          " ", "n", "e", "w", " ", "o", "r", "d", "e", "r", " ", "p", "l",
          "a", "c", "e", "d", ".">>,
      Upper |-> <<"S", "E", "T", "U", "P", " ", "G", "U", "I", "D", "E",
          " ", "F", "O", "R", " ", "A", "L", "L", " ", "U", "S", "E", "R",
          "S", " ", "H", "E", "R", "E">>,
      Upper30 |-> <<"A", "B", "C", "d", "e", "f", "g", "h", "i", "j">>,
      Upper31 |-> <<"A", "B", "C", "D", "e", "f", "g", "h", "i", "j", "k",
          "l">>,
      Words8 |-> <<"o", "n", "e", " ", "t", "w", "o", " ", "t", "h", "r",
          "e", "e", " ", "f", "o", "u", "r", " ", "f", "i", "v", "e", " ",
          "s", "i", "x", " ", "s", "e", "v", "e", "n", " ", "e", "i", "g",
          "h", "t">>,
      Words7 |-> <<"t", "h", "i", "s", " ", "o", "n", "e", " ", "h", "a",
          "s", " ", "j", "u", "s", "t", " ", "s", "e", "v", "e", "n", " ",
          "w", "o", "r", "d", "s", " ", "h", "e", "r", "e">>,
      Worst |-> <<"A", "R", "E", " ", "Y", "O", "U", " ", "S", "U", "R",
          "E", "?">>,
      Best |-> <<"T", "h", "i", "s", " ", "m", "o", "d", "u", "l", "e",
          " ", "p", "r", "o", "v", "i", "d", "e", "s", " ", "t", "h", "e",
          " ", "t", "o", "o", "l", "s", " ", "t", "h", "a", "t", " ", "y",
          "o", "u", "r", " ", "t", "e", "a", "m", " ", "n", "e", "e", "d",
          "s", ".">>,
      Len39 |-> Repeat("x", 39),
      Len40 |-> Repeat("x", 40) ]

SelectSentences == {Sent.Plain, Sent.Manages, Sent.Handles}

SelectInputs ==
    UNION {[1..n -> SelectSentences] : n \in 0..MaxListLen}
    \cup {<<Sent.Upper, Sent.Upper30, Sent.Upper31, Sent.Words8, Sent.Words7,
            Sent.Len39, Sent.Len40, Sent.Worst, Sent.Best>>,
          [i \in 1..21 |-> IF i = 21 THEN Sent.Best ELSE Sent.Plain],
          [i \in 1..22 |-> IF i \in {2, 21} THEN Sent.Manages
                           ELSE IF i \in {3, 22} THEN Sent.Best
                           ELSE IF i = 4 THEN Sent.TwoVerbs
                           ELSE IF i = 5 THEN Sent.Worst ELSE Sent.Question]}

SelectInit ==
    /\ CrawlOff /\ NormOff /\ ExtractOff
    /\ text_in \in SelectInputs
    /\ text_out = <<>>
    /\ tpc = "select"

\* selected = self._select_sentences(sentences), with the scores it computes
SelectStep ==
    /\ tpc = "select"
    /\ text_out' = << [i \in 1..Len(Prefix(text_in, MaxCandidates)) |->
                          _score_sentence(text_in[i])],
                      _select_sentences(text_in) >>
    /\ tpc' = "done"
    /\ UNCHANGED text_in

SelectNext == SelectStep /\ UNCHANGED <<crawlVars, normVars, extractVars>>

SpecSelect == SelectInit /\ [][SelectNext]_vars

\* the number of candidates that are scored
ScoredCount == IF Len(text_in) < 20 THEN Len(text_in) ELSE 20

\* candidate j comes before candidate i: a higher score, or the same score
\* and an earlier place
Precedes(scores, j, i) ==
    scores[j] > scores[i] \/ (scores[j] = scores[i] /\ j < i)

\* the places of the candidates that fewer than 3 scored candidates precede
BestPlaces(scores) ==
    {i \in 1..Len(scores) :
        Cardinality({j \in 1..Len(scores) : Precedes(scores, j, i)}) < 3}

\* the candidates at the given places, in the order of the list
RECURSIVE AtPlaces(_, _, _)
AtPlaces(list, places, i) ==
    IF i > Len(list) THEN <<>>
    ELSE (IF i \in places THEN <<list[i]>> ELSE <<>>) \o AtPlaces(list, places, i + 1)

\* C23: the selection is made of the 3 highest-scoring of the first 20
\* candidates, the earlier one winning a tie, in the order of the list,
\* repeated sentence texts included: no selected candidate has a lower
\* score than a scored candidate that is left out.
C23_TopScoredInOrder ==
    tpc = "done" => text_out[2] = AtPlaces(text_in, BestPlaces(text_out[1]), 1)

\* C26: the score of a sentence is the sum of +2.0 if it holds a listed
\* action verb (once), -1.0 if it holds '?', +1.0 if it has 8 words or
\* more, -2.0 if more than 30% of its characters are uppercase and -0.5 if
\* it has fewer than 40 characters; it lies between -3.5 and 3.0, and only
\* the first 20 candidates are scored.
C26_ScoreIsSumOfAdjustments ==
    tpc = "done" =>
        /\ Len(text_out[1]) = ScoredCount
        /\ \A i \in 1..Len(text_out[1]) :
              /\ text_out[1][i] =
                    (IF \E k \in 1..Len(action_words) :
                           Contains(lower(text_in[i]), action_words[k])
                     THEN 4 ELSE 0)
                    - (IF \E c \in 1..Len(text_in[i]) : text_in[i][c] = "?" THEN 2 ELSE 0)
                    + (IF WordCount(text_in[i]) >= 8 THEN 2 ELSE 0)
                    - (IF 10 * UpperCount(text_in[i]) > 3 * Len(text_in[i]) THEN 4 ELSE 0)
                    - (IF Len(text_in[i]) < 40 THEN 1 ELSE 0)
              /\ text_out[1][i] >= -7 /\ text_out[1][i] <= 6

\* more than 20 candidates, a scored sentence with two action verbs, and
\* both ends of the range
C26_Witness ==
    /\ tpc = "done"
    /\ Len(text_in) > 20
    /\ Len(text_out[1]) = 20
    /\ \E i \in 1..20 : text_in[i] = Sent.TwoVerbs
    /\ \E i \in 1..20 : text_out[1][i] = -7
    /\ \E i \in 1..20 : text_out[1][i] = 6

(***************************************************************************)
(* Properties of the failure handling of extract                           *)
(***************************************************************************)
HasLog(level) == \E i \in 1..Len(logs) : logs[i][1] = level

\* C24: extract never raises: a run that an exception of the crawl, of
\* inference or of the summarizer has ended returns no module and has an
\* ERROR entry in its log, and a run without crawled or without parsed
\* pages returns no module as a normal result, without ERROR entry.
C24_NeverRaises ==
    /\ xpc # "raised"
    /\ xpc = "failed" => (output_modules = <<>> /\ HasLog("ERROR"))
    /\ (xpc = "done" /\ (fetched_pages = <<>> \/ parsed_pages = <<>>))
          => (output_modules = <<>> /\ ~HasLog("ERROR"))

\* an exception after modules were inferred and one was described
C24_Witness ==
    /\ xpc = "failed"
    /\ \E k \in 1..Len(modules_dict) : modules_dict[k].description # <<>>
    /\ output_modules = <<>>
    /\ HasLog("ERROR")

WarningCount(message) ==
    Cardinality({i \in 1..Len(logs) : logs[i] = Log("WARNING", message)})

\* the number of fetched pages the parser has been given
PagesTried ==
    IF xpc = "start" THEN 0
    ELSE IF xpc = "parse" THEN xi - 1
    ELSE Len(fetched_pages)

\* C25: a page whose parse raises is dropped with one WARNING entry and
\* every other page is parsed, in fetch order: the parsed pages are the
\* parses of the pages that did not raise, their number and the number of
\* warnings add up to the pages tried, and a run with a parsed page goes on
\* to inference.
C25_ParseErrorsPerPage ==
    /\ Len(parsed_pages) <= Len(fetched_pages)
    /\ Len(parsed_pages) + WarningCount("error parsing") = PagesTried
    /\ \E kept \in SUBSET (1..PagesTried) :
          parsed_pages = AtPlaces([i \in 1..Len(fetched_pages) |->
                                      parse(fetched_pages[i].html, fetched_pages[i].url)],
                                  kept, 1)
    /\ (xpc = "done" /\ parsed_pages # <<>>)
          => \E i \in 1..Len(logs) : logs[i] = Log("INFO", "inferred")

\* the first page was dropped, the second was parsed and gave a module
C25_Witness ==
    /\ xpc = "done"
    /\ Len(fetched_pages) = 2
    /\ WarningCount("error parsing") = 1
    /\ Len(parsed_pages) = 1
    /\ parsed_pages[1].url = fetched_pages[2].url
    /\ output_modules # <<>>

\* the candidate sentences of a content: the pieces of the cleaned content
\* that have 20 to 300 characters and are not navigation text
CandidatesIn(pieces) ==
    {sent \in {strip(pieces[i]) : i \in 1..Len(pieces)} :
        Len(sent) >= 20 /\ Len(sent) <= 300 /\ ~_is_navigation_text(sent)}

CandidatesOf(content) ==
    UNION {CandidatesIn(pieces) : pieces \in {SplitSentences(_clean_content(content))}}

\* C27 as stated: every sentence of a description is a candidate sentence of
\* the cleaned content, verbatim or with a final '.' appended, and a
\* description has at most 3 sentences.
C27_VerbatimCandidates ==
    (tpc = "done" /\ text_out # <<>>) =>
        \A described \in {SplitSentences(text_out)} :
            /\ Len(described) <= 3
            /\ \A sent \in Range(described) :
                  \E c \in CandidatesOf(text_in) : sent \in {c, c \o <<".">>}

\* C27, amended: every sentence of a description is a candidate sentence of
\* the cleaned content with its runs of whitespace collapsed to one space,
\* with or without a final '.' appended, and a description has at most 3
\* sentences.
C27_CollapsedCandidates ==
    (tpc = "done" /\ text_out # <<>>) =>
        \A described \in {SplitSentences(text_out)} :
            /\ Len(described) <= 3
            /\ \A sent \in Range(described) :
                  \E c \in CandidatesOf(text_in) : sent \in {CollapseWs(c), CollapseWs(c) \o <<".">>}

\* a content with four candidates and a description of three of them
C27_Witness ==
    /\ tpc = "done"
    /\ Cardinality(CandidatesOf(text_in)) = 4
    /\ Len(SplitSentences(text_out)) = 3

(***************************************************************************)
(* Properties of the module dictionary of strategy 1                       *)
(***************************************************************************)
\* the H1 headings whose cleaned text is a module name
ValidH1s ==
    SelectSeq(OfLevel(Headings, 1),
              LAMBDA h : Len(_clean_heading(h.text)) >= MinNameLength)

\* the H1 headings that clean to name, in the order they are met
H1Occurrences(name) == SelectSeq(ValidH1s, LAMBDA h : _clean_heading(h.text) = name)

\* the submodule names found for each heading of hs, one list after the other
RECURSIVE SubmodulesFound(_)
SubmodulesFound(hs) ==
    IF hs = <<>> THEN <<>>
    ELSE _find_submodules_for_module(hs[1], Headings) \o SubmodulesFound(Tail(hs))

\* C28: after strategy 1 there is one module per cleaned H1 name, in the
\* order the names are first met; a module has the URL and the content of
\* the first heading of its name, and its submodules are the names found for
\* all headings of its name, each once, at the place it was first met, with
\* the value it was entered with.
C28_FirstOccurrenceKept ==
    xpc = "infer h2" =>
        /\ [k \in 1..Len(modules_dict) |-> modules_dict[k].name]
             = Keys([i \in 1..Len(ValidH1s) |-> _clean_heading(ValidH1s[i].text)])
        /\ \A k \in 1..Len(modules_dict) :
             \A occ \in {H1Occurrences(modules_dict[k].name)} :
                /\ modules_dict[k].url = occ[1].url
                /\ modules_dict[k].content = ModuleContent(parsed_pages, occ[1])
                /\ [j \in 1..Len(modules_dict[k].submodules) |->
                        modules_dict[k].submodules[j].name] = Keys(SubmodulesFound(occ))
                /\ \A j \in 1..Len(modules_dict[k].submodules) :
                        modules_dict[k].submodules[j].value = <<>>

\* two headings on two pages with different texts clean to one name; the
\* second brings a submodule the first had, after two it had not brought
\* first, and another URL and content
C28_Witness ==
    /\ xpc = "infer h2"
    /\ \E k \in 1..Len(modules_dict) :
         \E occ \in {H1Occurrences(modules_dict[k].name)} :
            /\ Len(occ) = 2
            /\ occ[1].text # occ[2].text
            /\ occ[1].url # occ[2].url
            /\ ModuleContent(parsed_pages, occ[1]) # ModuleContent(parsed_pages, occ[2])
            /\ \A subs \in {_find_submodules_for_module(occ[2], Headings)} :
                 /\ Len(subs) = 3
                 /\ subs[3] = modules_dict[k].submodules[1].name
                 /\ subs[2] = modules_dict[k].submodules[3].name
            /\ Len(modules_dict[k].submodules) = 3

(***************************************************************************)
(* Termination of URLCrawler.crawl                                         *)
(***************************************************************************)
\* C29: every crawl returns: whatever the seeds, the links of the pages
\* (links back to fetched pages and to the page itself included) and the
\* outcomes of the fetches, the loop ends, with the queue empty or with
\* max_pages pages.
C29_CrawlTerminates == <>(pc = "done")

\* a crawl has returned after a failed fetch and after fetching a page that
\* links to itself and back to a page fetched before it
C29_Witness ==
    /\ pc = "done"
    /\ \E i \in 1..Len(attempts) : IsFailed(attempts[i])
    /\ \E i \in 2..Len(pages) :
         \A links \in {extract_links(pages[i].html, pages[i].url)} :
            /\ pages[i].url \in Range(links)
            /\ pages[1].url \in Range(links)
    /\ queue = <<>> \/ Len(pages) = max_pages

(***************************************************************************)
(* The visited set of URLCrawler                                           *)
(***************************************************************************)
AttemptedUrls == {attempts[i].url : i \in 1..Len(attempts)}

\* C30: once a call of crawl has begun, in its first call on a crawler or in
\* a later one, visited holds exactly the URLs this call has tried to
\* fetch, whether the fetch gave a page or failed, and none of them was
\* tried twice: no URL of an earlier call is left in it and no URL that was
\* skipped is in it.
C30_VisitedIsAttempted ==
    pc \in {"loop", "done"} =>
        /\ visited = AttemptedUrls
        /\ \A i, j \in 1..Len(attempts) :
              i < j => attempts[i].url # attempts[j].url

====
